---- MODULE Spec2Model ----
(***************************************************************************)
(* The import dispatcher of the Open Asset Import Library: class           *)
(* Assimp::Importer (src/code/BaseImporter.h, second half: Importer.cpp)   *)
(* with the plugin contract of BaseImporter (first half of that file).     *)
(*                                                                         *)
(* Strings are sequences of tokens: a path is its name parts and dots,     *)
(* <<"a", ".", "obj">>; an error string is the concatenation of the        *)
(* literal pieces and the path the code concatenates; "" is <<>>.          *)
(* Pointers are identities: NULL is 0, a scene is a positive number,       *)
(* an importer or a stage is its class name.                               *)
(***************************************************************************)
EXTENDS Integers, Sequences, FiniteSets, TLC

VARIABLES
    mImporter,      \* Importer::mImporter, the ordered list of worker classes
    mScene,         \* Importer::mScene, NULL or the scene held
    mErrorString,   \* Importer::mErrorString
    mPPShared,      \* contents of the SharedPostProcessInfo object
    bExtraVerbose,  \* Importer::bExtraVerbose
    build,          \* the preprocessor configuration the library was built with
    freed,          \* scenes on which delete has been called
    deletes,        \* how many delete expressions were applied to each scene
    orphaned,       \* scenes handed to the caller by GetOrphanedScene
    nextScene,      \* identity of the next scene a decoder allocates
    last,           \* the last public call: arguments, return and call log
    mIOHandler,         \* Importer::mIOHandler, the I/O handle held
    mIsDefaultHandler,  \* Importer::mIsDefaultHandler
    ioHeap,             \* every IOSystem object: who allocated it, how often deleted
    mIntProperties,     \* Importer::mIntProperties
    mFloatProperties,   \* Importer::mFloatProperties
    mStringProperties,  \* Importer::mStringProperties
    other,          \* a second Importer, made by the copy constructor
    content,        \* the aiScene object mScene points to
    memInfo,        \* the aiMemoryInfo the last GetMemoryRequirements filled
    hist,           \* the last calls about the I/O handle, oldest first
    mAnim,          \* AnimEvaluator::mAnim, the animation evaluated
    mLastTime,      \* AnimEvaluator::mLastTime
    mLastPositions, \* AnimEvaluator::mLastPositions, per channel three frame indices
    mTransforms,    \* AnimEvaluator::mTransforms, per channel the values chosen
    evaluated       \* the last Evaluate: its time and the key indices it read

\* the I/O handle of the dispatcher
ioVars == <<mIOHandler, mIsDefaultHandler, ioHeap, hist>>

\* the property store of the dispatcher
propVars == <<mIntProperties, mFloatProperties, mStringProperties>>

\* the scene contents and their accounting
memVars == <<content, memInfo>>

\* the animation evaluator of the viewer
animVars == <<mAnim, mLastTime, mLastPositions, mTransforms, evaluated>>

vars == <<mImporter, mScene, mErrorString, mPPShared, bExtraVerbose, build, freed, deletes,
          orphaned, nextScene, last, ioVars, propVars, other, memVars, animVars>>

----------------------------------------------------------------------------
(* Bounds of the model *)

\* number of scenes the decoders may allocate in one behaviour
MaxScenes == 2

\* longest importer list (built-in workers plus registered custom loaders)
MaxImporters == 3

\* CanRead fails at the importers up to this index of the list
MaxFaultIndex == 1

\* number of IOSystem objects allocated in one behaviour
MaxHandles == 4

\* most animations of a scene and most channels of an animation
MaxAnimations == 2

MaxChannels == 2

----------------------------------------------------------------------------
(* Values *)

NULL == 0

NoImp == "nullimp"

EmptyString == <<>>

\* The preprocessor configurations of the library: rtti is _MSC_VER with
\* _CPPRTTI, debug is _DEBUG (ai_assert is assert), validateds is the absence
\* of AI_BUILD_NO_VALIDATEDS_PROCESS.
Builds == [rtti : BOOLEAN, debug : BOOLEAN, validateds : BOOLEAN]

\* the release builds with the validation stage, in which bExtraVerbose is
\* only warned about
ReleaseBuilds == {b \in Builds : ~b.debug /\ b.validateds}

\* the release build of a compiler other than MSVC
DefaultBuild == [rtti |-> FALSE, debug |-> FALSE, validateds |-> TRUE]

Contains(str, tok) == \E i \in DOMAIN str : str[i] = tok

Range(seq) == {seq[i] : i \in DOMAIN seq}

\* The exception classes a plugin can throw.  ImportErrorException is a plain
\* class (no base class), std::bad_alloc derives from std::exception.
ImportErrorException == "ImportErrorException"

StdExceptions == {"std::bad_alloc"}

ExcKinds == {ImportErrorException} \cup StdExceptions

IsStdException(kind) == kind \in StdExceptions

\* e.what() of a standard exception
What(kind) == "bad allocation"

\* text an importer or a stage puts into its ImportErrorException
ErrorTextOf(who) == <<"import failed in ", who>>

----------------------------------------------------------------------------
(* The I/O handle and the files it sees *)

PathEmpty == <<>>

PathMissing == <<"missing", ".", "obj">>

PathObj == <<"a", ".", "obj">>

PathDat == <<"b", ".", "dat">>

PathNoExt == <<"noext">>

PathBin == <<"c", ".", "bin">>

PathMixed == <<"e", ".", "obj">>

Paths == {PathEmpty, PathMissing, PathObj, PathDat, PathNoExt, PathBin, PathMixed}

\* What the first bytes of each existing file look like.
FileContent ==
    (PathObj :> "objsig") @@ (PathDat :> "xof") @@ (PathNoExt :> "xof") @@
    (PathBin :> "garbage") @@ (PathMixed :> "xof")

\* IOSystem::Exists of the dispatcher's handle
Exists(pFile) == pFile \in DOMAIN FileContent

\* std::string::find_last_of('.'): the index of the last dot, 0 for npos
FindLastDot(pFile) ==
    IF \E i \in DOMAIN pFile : pFile[i] = "."
    THEN CHOOSE i \in DOMAIN pFile :
            /\ pFile[i] = "."
            /\ \A j \in DOMAIN pFile : pFile[j] = "." => j <= i
    ELSE 0

\* BaseImporter::GetExtension: what follows the last dot, empty if there is none
GetExtension(pFile) ==
    IF FindLastDot(pFile) = 0 THEN <<>>
    ELSE SubSeq(pFile, FindLastDot(pFile) + 1, Len(pFile))

----------------------------------------------------------------------------
(* Importer plugins *)

\* The worker classes the constructor installs, in its order.
BuiltinImporters == <<"XFileImporter", "ObjFileImporter">>

\* Loaders a caller can hand to RegisterLoader.
CustomImporters == {"CustomLoader"}

\* extensions each worker class advertises
ExtensionsOf(imp) ==
    CASE imp = "XFileImporter"   -> {<<"x">>}
      [] imp = "ObjFileImporter" -> {<<"obj">>}
      [] imp = "CustomLoader"    -> {<<"obj">>}
      [] imp = "PlyLoader"       -> {<<"ply">>}

\* magic tokens each worker class recognises in the head of a file
SignaturesOf(imp) ==
    CASE imp = "XFileImporter"   -> {"xof"}
      [] imp = "ObjFileImporter" -> {"objsig"}
      [] imp = "CustomLoader"    -> {"xof"}
      [] imp = "PlyLoader"       -> {"ply"}

\* BaseImporter::CanRead: the extension alone when checkSig is false, the
\* extension or the head of the file when it is true.
CanRead(imp, pFile, checkSig) ==
    \/ GetExtension(pFile) \in ExtensionsOf(imp)
    \/ /\ checkSig
       /\ pFile \in DOMAIN FileContent
       /\ FileContent[pFile] \in SignaturesOf(imp)

----------------------------------------------------------------------------
(* Post-processing flags (aiPostProcessSteps) *)

aiProcess_CalcTangentSpace == 1

aiProcess_JoinIdenticalVertices == 2

aiProcess_ConvertToLeftHanded == 4

aiProcess_Triangulate == 8

aiProcess_RemoveComponent == 16

aiProcess_GenNormals == 32

aiProcess_GenSmoothNormals == 64

aiProcess_SplitLargeMeshes == 128

aiProcess_PreTransformVertices == 256

aiProcess_LimitBoneWeights == 512

aiProcess_ValidateDataStructure == 1024

aiProcess_ImproveCacheLocality == 2048

aiProcess_RemoveRedundantMaterials == 4096

aiProcess_FixInfacingNormals == 8192

aiProcess_SortByPType == 32768

aiProcess_FindDegenerates == 65536

aiProcess_FindInvalidData == 131072

aiProcess_GenUVCoords == 262144

aiProcess_TransformUVCoords == 524288

aiProcess_FindInstances == 1048576

aiProcess_FlipUVs == 8388608

aiProcess_FlipWindingOrder == 16777216

\* pFlags & bit, for a single bit
HasBit(pFlags, bit) == (pFlags \div bit) % 2 = 1

\* pFlags & mask, for a mask given as its set of bits
HasAny(pFlags, bits) == \E b \in bits : HasBit(pFlags, b)

\* _ValidateFlags: the two normal generators exclude one another
ValidateFlagsBasicLax(pFlags) == TRUE

ValidateFlagsBasic(pFlags) ==
    ~(HasBit(pFlags, aiProcess_GenSmoothNormals) /\ HasBit(pFlags, aiProcess_GenNormals))

----------------------------------------------------------------------------
(* Post-processing stages *)

\* Importer::Importer: mPostProcessingSteps in the order of the push_backs
PostProcessingSteps == <<
    "RemoveVCProcess", "RemoveRedundantMatsProcess", "FindInstancesProcess",
    "FindDegeneratesProcess", "ComputeUVMappingProcess", "TextureTransformStep",
    "PretransformVertices", "TriangulateProcess", "SortByPTypeProcess",
    "FindInvalidDataProcess", "FixInfacingNormalsProcess",
    "SplitLargeMeshesProcess_Triangle", "GenFaceNormalsProcess",
    "ComputeSpatialSortProcess", "GenVertexNormalsProcess", "CalcTangentsProcess",
    "JoinVerticesProcess", "DestroySpatialSortProcess",
    "SplitLargeMeshesProcess_Vertex", "MakeLeftHandedProcess", "FlipUVsProcess",
    "FlipWindingOrderProcess", "LimitBoneWeightsProcess",
    "ImproveCacheLocalityProcess" >>

\* the bits of the request each stage services
SpatialSortBits ==
    {aiProcess_GenSmoothNormals, aiProcess_CalcTangentSpace,
     aiProcess_JoinIdenticalVertices}

StageBits ==
    [step \in Range(PostProcessingSteps) |->
    CASE step = "RemoveVCProcess"                  -> {aiProcess_RemoveComponent}
      [] step = "RemoveRedundantMatsProcess"       -> {aiProcess_RemoveRedundantMaterials}
      [] step = "FindInstancesProcess"             -> {aiProcess_FindInstances}
      [] step = "FindDegeneratesProcess"           -> {aiProcess_FindDegenerates}
      [] step = "ComputeUVMappingProcess"          -> {aiProcess_GenUVCoords}
      [] step = "TextureTransformStep"             -> {aiProcess_TransformUVCoords}
      [] step = "PretransformVertices"             -> {aiProcess_PreTransformVertices}
      [] step = "TriangulateProcess"               -> {aiProcess_Triangulate}
      [] step = "SortByPTypeProcess"               -> {aiProcess_SortByPType}
      [] step = "FindInvalidDataProcess"           -> {aiProcess_FindInvalidData}
      [] step = "FixInfacingNormalsProcess"        -> {aiProcess_FixInfacingNormals}
      [] step = "SplitLargeMeshesProcess_Triangle" -> {aiProcess_SplitLargeMeshes}
      [] step = "GenFaceNormalsProcess"            -> {aiProcess_GenNormals}
      [] step = "ComputeSpatialSortProcess"        -> SpatialSortBits
      [] step = "GenVertexNormalsProcess"          -> {aiProcess_GenSmoothNormals}
      [] step = "CalcTangentsProcess"              -> {aiProcess_CalcTangentSpace}
      [] step = "JoinVerticesProcess"              -> {aiProcess_JoinIdenticalVertices}
      [] step = "DestroySpatialSortProcess"        -> SpatialSortBits
      [] step = "SplitLargeMeshesProcess_Vertex"   -> {aiProcess_SplitLargeMeshes}
      [] step = "MakeLeftHandedProcess"            -> {aiProcess_ConvertToLeftHanded}
      [] step = "FlipUVsProcess"                   -> {aiProcess_FlipUVs}
      [] step = "FlipWindingOrderProcess"          -> {aiProcess_FlipWindingOrder}
      [] step = "LimitBoneWeightsProcess"          -> {aiProcess_LimitBoneWeights}
      [] step = "ImproveCacheLocalityProcess"      -> {aiProcess_ImproveCacheLocality}]

\* BaseProcess::IsActive: any of the stage's bits is requested
IsActive(step, pFlags) == HasAny(pFlags, StageBits[step])

ActiveSteps(pFlags) ==
    {PostProcessingSteps[a] : a \in {b \in DOMAIN PostProcessingSteps :
                                        IsActive(PostProcessingSteps[b], pFlags)}}

----------------------------------------------------------------------------
(* What an importer or a stage does in one ReadFile.  At most one plugin   *)
(* call of a ReadFile fails; every failure ends the call, so one is enough.*)

NoFault == [site |-> "none", who |-> "", sig |-> FALSE, kind |-> ""]

FaultAt(site, who, sig, kind) == [site |-> site, who |-> who, sig |-> sig, kind |-> kind]

\* failures of the probes: CanRead of one of the first MaxFaultIndex
\* importers of the list throws
ProbeFaults(list) ==
    {FaultAt("CanRead", list[a], sig, k) :
        a \in {b \in DOMAIN list : b <= MaxFaultIndex}, sig \in BOOLEAN, k \in ExcKinds}

\* failures of the decode
DecodeFaults == {FaultAt("InternReadFile", "", FALSE, k) : k \in ExcKinds}

\* the stages that fail in the model
FaultyStages == {"TriangulateProcess", "JoinVerticesProcess"}

\* failures after the selection, with these flags
ImportFaults(pFlags) ==
    {FaultAt("ImporterSetup", "", FALSE, k) : k \in ExcKinds}
    \cup DecodeFaults
    \cup {FaultAt("ValidateDS", "", FALSE, "invalid") : x \in
              {y \in {1} : HasBit(pFlags, aiProcess_ValidateDataStructure)}}
    \cup {FaultAt("Preprocess", "", FALSE, k) : k \in ExcKinds}
    \cup {FaultAt("StageSetup", st, FALSE, k) :
              st \in ActiveSteps(pFlags) \cap FaultyStages, k \in ExcKinds}
    \cup {FaultAt("StageExecute", st, FALSE, k) :
              st \in ActiveSteps(pFlags) \cap FaultyStages, k \in ExcKinds}

----------------------------------------------------------------------------
(* Importer::ReadFile, statement by statement.  A call is a record d: the  *)
(* members it writes, the importer selected (imp), the position (pc: run,  *)
(* returned, throw = an exception is in flight, raised = it left ReadFile),*)
(* the exception (exc), the value returned (ret) and the log of the calls  *)
(* made (trace).  The record carries the build and bExtraVerbose, which the *)
(* _DEBUG blocks of lines 1168-1182 and 1192-1212 read.  pc = aborted is a  *)
(* failed ai_assert of a debug build.                                      *)

Ev(op, who, sig, res) == [op |-> op, who |-> who, sig |-> sig, res |-> res]

Log(d, e) == [d EXCEPT !.trace = Append(@, e)]

Throw(d, kind) == [d EXCEPT !.pc = "throw", !.exc = kind]

ReturnNull(d) == [d EXCEPT !.pc = "returned", !.ret = NULL]

BoolRes(b) == IF b THEN "true" ELSE "false"

\* the scenes by identity
SceneIds == 1..MaxScenes

\* no delete expression has been applied to any scene
NoDeletes == [sc \in SceneIds |-> 0]

\* delete pScene: nothing for NULL, one more delete of the object otherwise
CountDelete(count, pScene) ==
    IF pScene = NULL THEN count ELSE [count EXCEPT ![pScene] = @ + 1]

\* delete mScene; mScene = NULL  (Importer::FreeScene, and line 1233)
DeleteScene(d) ==
    [d EXCEPT !.freed = IF d.mScene = NULL THEN @ ELSE @ \cup {d.mScene},
              !.deletes = CountDelete(@, d.mScene),
              !.mScene = NULL]

AssertFlagsInEveryBuild(d, pFlags) ==
    IF ~ValidateFlagsBasic(pFlags) THEN [d EXCEPT !.pc = "aborted"] ELSE d

\* line 1081: ai_assert(_ValidateFlags(pFlags)) stops a debug build
AssertFlags(d, pFlags) ==
    IF d.build.debug /\ ~ValidateFlagsBasic(pFlags) THEN [d EXCEPT !.pc = "aborted"] ELSE d

\* lines 1096-1100: a scene held from an earlier import is deleted first
DeletePreviousSceneSkipped(d) == d

DeletePreviousScene(d) ==
    IF d.pc # "run" THEN d
    ELSE IF d.mScene # NULL
    THEN DeleteScene(Log(d, Ev("FreeScene", "Importer", FALSE, "ok")))
    ELSE d

UnableToOpen(pFile) == <<"Unable to open file", " \"">> \o pFile \o <<"\".">>

NoSuitableReader(pFile) ==
    <<"No suitable reader", " found for the file format of file \"">> \o pFile \o <<"\".">>

ProbeExistenceAfterAnError(d, pFile) ==
    IF d.pc # "run" THEN d
    ELSE IF d.mErrorString # EmptyString THEN ReturnNull(d)
    ELSE LET d1 == Log(d, Ev("Exists", "IOSystem", FALSE, BoolRes(Exists(pFile))))
         IN  IF ~Exists(pFile)
             THEN ReturnNull([d1 EXCEPT !.mErrorString = UnableToOpen(pFile)])
             ELSE d1

\* lines 1102-1108
ProbeExistenceIgnored(d, pFile) ==
    IF d.pc # "run" THEN d
    ELSE Log(d, Ev("Exists", "IOSystem", FALSE, BoolRes(Exists(pFile))))

ProbeExistence(d, pFile) ==
    IF d.pc # "run" THEN d
    ELSE LET d1 == Log(d, Ev("Exists", "IOSystem", FALSE, BoolRes(Exists(pFile))))
         IN  IF ~Exists(pFile)
             THEN ReturnNull([d1 EXCEPT !.mErrorString = UnableToOpen(pFile)])
             ELSE d1

\* lines 1112-1118 and 1126-1132: ask the importers from index a on
RECURSIVE CanReadLoop(_, _, _, _, _, _)
RECURSIVE CanReadLoopBackwards(_, _, _, _, _, _)
CanReadLoopBackwards(d, list, a, pFile, checkSig, fault) ==
    IF a > Len(list) THEN d
    ELSE LET imp == list[Len(list) + 1 - a]
         IN  IF fault.site = "CanRead" /\ fault.who = imp /\ fault.sig = checkSig
             THEN Throw(Log(d, Ev("CanRead", imp, checkSig, fault.kind)), fault.kind)
             ELSE IF CanRead(imp, pFile, checkSig)
             THEN [Log(d, Ev("CanRead", imp, checkSig, "true")) EXCEPT !.imp = imp]
             ELSE CanReadLoopBackwards(Log(d, Ev("CanRead", imp, checkSig, "false")),
                                       list, a + 1, pFile, checkSig, fault)

CanReadLoop(d, list, a, pFile, checkSig, fault) ==
    IF a > Len(list) THEN d
    ELSE LET imp == list[a]
         IN  IF fault.site = "CanRead" /\ fault.who = imp /\ fault.sig = checkSig
             THEN Throw(Log(d, Ev("CanRead", imp, checkSig, fault.kind)), fault.kind)
             ELSE IF CanRead(imp, pFile, checkSig)
             THEN [Log(d, Ev("CanRead", imp, checkSig, "true")) EXCEPT !.imp = imp]
             ELSE CanReadLoop(Log(d, Ev("CanRead", imp, checkSig, "false")),
                              list, a + 1, pFile, checkSig, fault)

\* lines 1120-1124: the second pass is tried when the first found nothing
\* and the path has a dot
TrySignaturesAlways(d, pFile) == d.imp = NoImp

TrySignatures(d, pFile) == d.imp = NoImp /\ FindLastDot(pFile) # 0

\* lines 1110-1141
SelectImporterNoError(d, list, pFile, fault) ==
    IF d.pc # "run" THEN d
    ELSE LET d1 == CanReadLoop(d, list, 1, pFile, FALSE, fault)
             d2 == IF d1.pc = "run" /\ TrySignatures(d1, pFile)
                   THEN CanReadLoop(d1, list, 1, pFile, TRUE, fault)
                   ELSE d1
         IN  IF d2.pc = "run" /\ d2.imp = NoImp THEN ReturnNull(d2) ELSE d2

SelectImporter(d, list, pFile, fault) ==
    IF d.pc # "run" THEN d
    ELSE LET d1 == CanReadLoop(d, list, 1, pFile, FALSE, fault)
             d2 == IF d1.pc = "run" /\ TrySignatures(d1, pFile)
                   THEN CanReadLoop(d1, list, 1, pFile, TRUE, fault)
                   ELSE d1
         IN  IF d2.pc = "run" /\ d2.imp = NoImp
             THEN ReturnNull([d2 EXCEPT !.mErrorString = NoSuitableReader(pFile)])
             ELSE d2

\* line 1145: imp->SetupProperties(this)
ImporterSetupProperties(d, fault) ==
    IF d.pc # "run" THEN d
    ELSE IF fault.site = "ImporterSetup"
    THEN Throw(Log(d, Ev("SetupProperties", d.imp, FALSE, fault.kind)), fault.kind)
    ELSE Log(d, Ev("SetupProperties", d.imp, FALSE, "ok"))

\* BaseImporter::ReadFile: runs InternReadFile on a new scene; an
\* ImportErrorException is caught there, its text kept in mErrorText and the
\* scene destroyed; any other exception passes through.
BaseImporter_ReadFile(imp, fault, fresh) ==
    IF fault.site = "InternReadFile"
    THEN IF fault.kind = ImportErrorException
         THEN [scene |-> NULL, mErrorText |-> ErrorTextOf(imp), exc |-> ""]
         ELSE [scene |-> NULL, mErrorText |-> EmptyString, exc |-> fault.kind]
    ELSE [scene |-> fresh, mErrorText |-> EmptyString, exc |-> ""]

\* line 1146: mScene = imp->ReadFile(pFile, mIOHandler)
Decode(d, fault) ==
    IF d.pc # "run" THEN d
    ELSE LET r  == BaseImporter_ReadFile(d.imp, fault, d.nextScene)
             d1 == Log(d, Ev("InternReadFile", d.imp, FALSE,
                             IF fault.site = "InternReadFile" THEN fault.kind ELSE "ok"))
         IN  IF r.exc # ""
             THEN Throw(d1, r.exc)
             ELSE [d1 EXCEPT !.mScene = r.scene,
                             !.impErrorText = r.mErrorText,
                             !.nextScene = IF r.scene # NULL THEN @ + 1 ELSE @]

\* ValidateDSProcess::ExecuteOnScene: on the first violation the scene is
\* destroyed, mScene nulled and the reason recorded in mErrorString.
ValidateDSProcess_ExecuteOnScene(d, fault) ==
    IF fault.site = "ValidateDS"
    THEN [DeleteScene(Log(d, Ev("ValidateDS", "ValidateDSProcess", FALSE, "invalid")))
            EXCEPT !.mErrorString = ErrorTextOf("ValidateDSProcess")]
    ELSE Log(d, Ev("ValidateDS", "ValidateDSProcess", FALSE, "ok"))

\* lines 1151-1161: validation first, when its bit is requested and the
\* stage is compiled in
ValidationSkipped(d, pFlags, fault) == d

Validation(d, pFlags, fault) ==
    IF d.pc # "run" \/ ~d.build.validateds
       \/ ~HasBit(pFlags, aiProcess_ValidateDataStructure) THEN d
    ELSE LET d1 == ValidateDSProcess_ExecuteOnScene(d, fault)
         IN  IF d1.mScene = NULL THEN ReturnNull(d1) ELSE d1

\* lines 1163-1165: ScenePreprocessor pre(mScene); pre.ProcessScene()
Preprocess(d, fault) ==
    IF d.pc # "run" THEN d
    ELSE IF fault.site = "Preprocess"
    THEN Throw(Log(d, Ev("ProcessScene", "ScenePreprocessor", FALSE, fault.kind)), fault.kind)
    ELSE Log(d, Ev("ProcessScene", "ScenePreprocessor", FALSE, "ok"))

\* line 1188: process->SetupProperties(this)
StageSetupProperties(d, process, fault) ==
    IF d.pc # "run" THEN d
    ELSE IF fault.site = "StageSetup" /\ fault.who = process
    THEN Throw(Log(d, Ev("StageSetupProperties", process, FALSE, fault.kind)), fault.kind)
    ELSE Log(d, Ev("StageSetupProperties", process, FALSE, "ok"))

\* what a stage leaves in the shared pass state
SharedAfter(process, shared) ==
    CASE process = "ComputeSpatialSortProcess" -> shared \cup {"spatial_sort"}
      [] process = "DestroySpatialSortProcess" -> shared \ {"spatial_sort"}
      [] OTHER -> shared

\* BaseProcess::ExecuteOnScene: runs Execute; an ImportErrorException is caught
\* there, its text stored in the dispatcher's error string and the scene
\* destroyed and nulled; any other exception passes through.
BaseProcess_ExecuteOnScene(d, process, fault) ==
    IF d.pc # "run" THEN d
    ELSE IF fault.site = "StageExecute" /\ fault.who = process
    THEN IF IsStdException(fault.kind)
         THEN Throw(Log(d, Ev("Execute", process, FALSE, fault.kind)), fault.kind)
         ELSE [DeleteScene(Log(d, Ev("Execute", process, FALSE, fault.kind)))
                 EXCEPT !.mErrorString = ErrorTextOf(process)]
    ELSE [Log(d, Ev("Execute", process, FALSE, "ok"))
            EXCEPT !.mPPShared = SharedAfter(process, @)]

\* lines 1168-1182: a debug build in extra verbose mode adds the validation
\* bit to the flags the loop sees; a release build only warns
VerboseFlags(d, pFlags) ==
    IF d.build.debug /\ d.bExtraVerbose /\ ~HasBit(pFlags, aiProcess_ValidateDataStructure)
    THEN pFlags + aiProcess_ValidateDataStructure
    ELSE pFlags

\* lines 1192-1212, the end of the loop body in a debug build: with the
\* validation stage compiled in the body ends at the continue of line 1195;
\* without it, extra verbose mode validates the scene again
Revalidate(d, process, fault) ==
    IF ~d.build.debug \/ d.build.validateds \/ ~d.bExtraVerbose THEN d
    ELSE ValidateDSProcess_ExecuteOnScene(d,
             IF fault.site = "Revalidate" /\ fault.who = process
             THEN FaultAt("ValidateDS", "", FALSE, "invalid")
             ELSE NoFault)

\* line 1185: BaseProcess* process = mPostProcessingSteps[a]
StageAtReversed(a) == PostProcessingSteps[Len(PostProcessingSteps) + 1 - a]

StageAtWindowOpen(a) ==
    CASE PostProcessingSteps[a] = "DestroySpatialSortProcess" -> PostProcessingSteps[a + 1]
      [] a > 1 /\ PostProcessingSteps[a - 1] = "DestroySpatialSortProcess" ->
            PostProcessingSteps[a - 1]
      [] OTHER -> PostProcessingSteps[a]

StageAt(a) == PostProcessingSteps[a]

RECURSIVE PipelineLoopNoBreak(_, _, _, _)
PipelineLoopNoBreak(d, a, pFlags, fault) ==
    IF d.pc # "run" \/ a > Len(PostProcessingSteps) THEN d
    ELSE LET process == StageAt(a)
             d1 == IF IsActive(process, pFlags)
                   THEN BaseProcess_ExecuteOnScene(
                            StageSetupProperties(d, process, fault), process, fault)
                   ELSE d
         IN  IF d1.pc # "run" THEN d1
             ELSE PipelineLoopNoBreak(Revalidate(d1, process, fault), a + 1, pFlags, fault)

\* lines 1183-1213: the loop over the stages, from index a on
RECURSIVE PipelineLoop(_, _, _, _)
PipelineLoop(d, a, pFlags, fault) ==
    IF d.pc # "run" \/ a > Len(PostProcessingSteps) THEN d
    ELSE LET process == StageAt(a)
             d1 == IF IsActive(process, pFlags)
                   THEN BaseProcess_ExecuteOnScene(
                            StageSetupProperties(d, process, fault), process, fault)
                   ELSE d
         IN  IF d1.pc # "run" \/ d1.mScene = NULL THEN d1
             ELSE LET d2 == Revalidate(d1, process, fault)
                  IN  IF d2.mScene = NULL THEN d2
                      ELSE PipelineLoop(d2, a + 1, pFlags, fault)

\* lines 1216-1217: the importer's message becomes the error string
ExtractErrorStringForgotten(d) == d

ExtractErrorString(d) == [d EXCEPT !.mErrorString = d.impErrorText]

\* lines 1149-1217: post-processing after a decode that gave a scene, the
\* error string after one that gave none
PostProcess(d, pFlags, fault) ==
    IF d.pc # "run" THEN d
    ELSE IF d.mScene # NULL
    THEN PipelineLoop(Preprocess(Validation(d, pFlags, fault), fault), 1,
                      VerboseFlags(d, pFlags), fault)
    ELSE ExtractErrorString(d)

\* line 1220: mPPShared->Clean()
CleanSharedData(d) ==
    IF d.pc # "run" THEN d
    ELSE [Log(d, Ev("Clean", "SharedPostProcessInfo", FALSE, "ok")) EXCEPT !.mPPShared = {}]

\* lines 1225-1230: typeid(e).name() with MSVC and RTTI, a fixed tag otherwise
ExceptionName(kind, bld) == IF bld.rtti THEN kind ELSE "std::exception"

\* lines 1223-1234: catch (std::exception&)
CatchKeepsScene(d, bld) ==
    IF d.pc # "throw" THEN d
    ELSE IF IsStdException(d.exc)
    THEN [d EXCEPT !.mErrorString = <<ExceptionName(d.exc, bld), ": ", What(d.exc)>>,
                   !.pc = "run"]
    ELSE [d EXCEPT !.pc = "raised"]

CatchStdException(d, bld) ==
    IF d.pc # "throw" THEN d
    ELSE IF IsStdException(d.exc)
    THEN [DeleteScene(d) EXCEPT
            !.mErrorString = <<ExceptionName(d.exc, bld), ": ", What(d.exc)>>,
            !.pc = "run"]
    ELSE [d EXCEPT !.pc = "raised"]

\* line 1238: return mScene
ReturnScene(d) ==
    IF d.pc # "run" THEN d ELSE [d EXCEPT !.pc = "returned", !.ret = d.mScene]

\* the call record ReadFile starts from
CallRecord ==
    [mScene |-> mScene, mErrorString |-> mErrorString, mPPShared |-> mPPShared,
     bExtraVerbose |-> bExtraVerbose, build |-> build,
     freed |-> freed, deletes |-> deletes, nextScene |-> nextScene, imp |-> NoImp,
     impErrorText |-> EmptyString, pc |-> "run", exc |-> "", ret |-> NULL,
     trace |-> <<>>]

\* lines 1078-1239
ReadFileBody(d, list, pFile, pFlags, fault, bld) ==
    ReturnScene(
      CatchStdException(
        CleanSharedData(
          PostProcess(
            Decode(
              ImporterSetupProperties(
                SelectImporter(
                  ProbeExistence(DeletePreviousScene(AssertFlags(d, pFlags)), pFile),
                  list, pFile, fault),
                fault),
              fault),
            pFlags, fault)),
        bld))

----------------------------------------------------------------------------
(* The public operations *)

\* the flag bitsets the callers of the model pass to ReadFile
FlagChoices ==
    { 0,
      aiProcess_ValidateDataStructure + aiProcess_Triangulate,
      aiProcess_JoinIdenticalVertices }

Request(pFile, pFlags, fault) == [pFile |-> pFile, pFlags |-> pFlags, fault |-> fault]

\* The calls of ReadFile the model makes.  The probes do not read the flags
\* and the post-processing does not read the path: every path is probed, with
\* every failure of a probe and of the decode, under flags 0, and every flag
\* bitset with every later failure is tried on one file.
Requests(list) ==
    {Request(p, 0, f) : p \in Paths, f \in {NoFault} \cup ProbeFaults(list) \cup DecodeFaults}
    \cup UNION {{Request(PathObj, fl, f) : f \in {NoFault} \cup ImportFaults(fl)} :
                    fl \in FlagChoices}

\* the failure asked for did happen in the call
FaultFired(d) == \E i \in DOMAIN d.trace : d.trace[i].res \notin {"ok", "true", "false"}

\* aiReturn
AI_SUCCESS == 0

AI_FAILURE == -1

\* a bool as the integer C++ converts it to
BoolValue(b) == IF b THEN 1 ELSE 0

\* the record of a call: pFlags holds the low 31 bits of a flag word and hi
\* its highest bit
NoCall(op) ==
    [op |-> op, pFile |-> <<>>, pFlags |-> 0, hi |-> FALSE, pc |-> "returned",
     ret |-> NULL, imp |-> NoImp, trace |-> <<>>]

\* The IOSystem objects by identity.  An object is not allocated yet, or it
\* is a DefaultIOSystem the dispatcher allocated, or a handle of the caller;
\* deleted counts the delete expressions applied to it.
IOHandles == 1..MaxHandles

Unallocated == [kind |-> "unallocated", deleted |-> 0]

\* new DefaultIOSystem(), and the new expression of a caller
NewHandle(heap, h, kind) == [heap EXCEPT ![h] = [kind |-> kind, deleted |-> 0]]

\* the identity the next new expression returns; NULL when the model has no more
NextHandle(heap) ==
    IF \E h \in IOHandles : heap[h].kind = "unallocated"
    THEN CHOOSE h \in IOHandles :
             /\ heap[h].kind = "unallocated"
             /\ \A g \in IOHandles : heap[g].kind = "unallocated" => h <= g
    ELSE NULL

\* delete pIOHandler; delete of a null pointer does nothing
DeleteHandle(heap, h) ==
    IF h = NULL THEN heap ELSE [heap EXCEPT ![h].deleted = @ + 1]

\* std::map<unsigned int, T>(): the empty property map
EmptyMap == [k \in {} |-> 0]

\* no second Importer has been constructed
NoOther ==
    [exists |-> FALSE, mImporter |-> <<>>, mScene |-> NULL, mErrorString |-> EmptyString,
     mPPShared |-> {}, bExtraVerbose |-> FALSE, mIOHandler |-> NULL,
     mIsDefaultHandler |-> FALSE, mIntProperties |-> EmptyMap,
     mFloatProperties |-> EmptyMap, mStringProperties |-> EmptyMap]

\* aiNode: the number of meshes it references and its children
Node(mNumMeshes, mChildren) == [mNumMeshes |-> mNumMeshes, mChildren |-> mChildren]

\* aiMesh: the vertex count, which vertex streams exist, the weights of each
\* bone and the number of faces
Mesh(mNumVertices, normals, tangents, colors, uvs, bones, mNumFaces) ==
    [mNumVertices |-> mNumVertices, normals |-> normals, tangents |-> tangents,
     colors |-> colors, uvs |-> uvs, bones |-> bones, mNumFaces |-> mNumFaces]

\* aiNodeAnim: the key counts of one channel
Channel(p, s, r) ==
    [mNumPositionKeys |-> p, mNumScalingKeys |-> s, mNumRotationKeys |-> r]

\* aiScene: what the decoders of the model build.  mAnimations is the list of
\* the animations, each the list of its channels.
SceneOf(mMeshes, mTextures, mAnimations, mNumCameras, mNumLights, mRootNode, mMaterials) ==
    [mMeshes |-> mMeshes, mTextures |-> mTextures, mAnimations |-> mAnimations,
     mNumCameras |-> mNumCameras, mNumLights |-> mNumLights, mRootNode |-> mRootNode,
     mMaterials |-> mMaterials]

\* a scene of one triangle: one mesh, one material, a root node, no animation
DefaultContent ==
    SceneOf(<<Mesh(3, TRUE, FALSE, 0, 1, <<>>, 1)>>, <<>>, <<>>, 0, 0,
            Node(1, <<>>), <<[mNumAllocated |-> 1, mProperties |-> <<4>>]>>)

\* aiMemoryInfo(): all fields zero.  pc tells how the call ended and oob
\* whether it read a channel slot no channel occupies.
NoInfo ==
    [textures |-> 0, materials |-> 0, meshes |-> 0, nodes |-> 0, animations |-> 0,
     cameras |-> 0, lights |-> 0, total |-> 0, pc |-> "none", oob |-> FALSE]

\* Importer::Importer(), lines 652-862: the members the further operations
\* use.  The constructor allocates the first DefaultIOSystem.
\* aiAnimation: its duration in ticks, its ticks per second and its channels
Animation(mDuration, mTicksPerSecond, mChannels) ==
    [mDuration |-> mDuration, mTicksPerSecond |-> mTicksPerSecond, mChannels |-> mChannels]

\* no Evaluate has been called
NotEvaluated == [done |-> FALSE, time |-> 0, tracks |-> <<>>]

\* AnimEvaluator::AnimEvaluator, lines 49-54
Constructor(pAnim) ==
    /\ mAnim = pAnim
    /\ mLastTime = 0
    /\ mLastPositions = [a \in DOMAIN pAnim.mChannels |-> <<0, 0, 0>>]
    /\ mTransforms = <<>>
    /\ evaluated = NotEvaluated

\* the viewer plays an animation without channels
NoEvaluator == Constructor(Animation(0, 0, <<>>))

InitObjects ==
    /\ mIOHandler = 1
    /\ mIsDefaultHandler = TRUE
    /\ ioHeap = NewHandle([h \in IOHandles |-> Unallocated], 1, "default")
    /\ hist = <<>>
    /\ mIntProperties = EmptyMap
    /\ mFloatProperties = EmptyMap
    /\ mStringProperties = EmptyMap
    /\ other = NoOther
    /\ content = DefaultContent
    /\ memInfo = NoInfo
    /\ NoEvaluator

\* Importer::Importer(), lines 652-862, in the default build; the other builds
\* are the subject of SpecCatch, SpecVerbose and SpecFlags
Init ==
    /\ InitObjects
    /\ mImporter = BuiltinImporters
    /\ mScene = NULL
    /\ mErrorString = EmptyString
    /\ mPPShared = {}
    /\ bExtraVerbose = FALSE
    /\ build = DefaultBuild
    /\ freed = {}
    /\ deletes = NoDeletes
    /\ orphaned = {}
    /\ nextScene = 1
    /\ last = NoCall("Importer")

\* Importer::ReadFile, lines 1078-1239
ReadFile(pFile, pFlags, fault) ==
    /\ nextScene <= MaxScenes
    /\ \E d \in {ReadFileBody(CallRecord, mImporter, pFile, pFlags, fault, build)} :
           /\ fault = NoFault \/ FaultFired(d)
           /\ mScene' = d.mScene
           /\ mErrorString' = d.mErrorString
           /\ mPPShared' = d.mPPShared
           /\ freed' = d.freed
           /\ deletes' = d.deletes
           /\ nextScene' = d.nextScene
           /\ last' = [op |-> "ReadFile", pFile |-> pFile, pFlags |-> pFlags,
                       hi |-> FALSE, pc |-> d.pc, ret |-> d.ret, imp |-> d.imp, trace |-> d.trace]
    /\ UNCHANGED <<mImporter, bExtraVerbose, build, orphaned>>
    /\ UNCHANGED <<ioVars, propVars, other, memVars, animVars>>

FreeSceneKeepsPointer ==
    /\ freed' = IF mScene = NULL THEN freed ELSE freed \cup {mScene}
    /\ deletes' = CountDelete(deletes, mScene)
    /\ last' = NoCall("FreeScene")
    /\ UNCHANGED <<mImporter, mScene, mErrorString, mPPShared, bExtraVerbose, build,
                   orphaned, nextScene>>
    /\ UNCHANGED <<ioVars, propVars, other, memVars, animVars>>

\* Importer::FreeScene, lines 1002-1006
FreeScene ==
    /\ freed' = IF mScene = NULL THEN freed ELSE freed \cup {mScene}
    /\ deletes' = CountDelete(deletes, mScene)
    /\ mScene' = NULL
    /\ last' = NoCall("FreeScene")
    /\ UNCHANGED <<mImporter, mErrorString, mPPShared, bExtraVerbose, build, orphaned,
                   nextScene>>
    /\ UNCHANGED <<ioVars, propVars, other, memVars, animVars>>

\* Importer::GetOrphanedScene, lines 1031-1036
GetOrphanedSceneKeepsPointer ==
    /\ orphaned' = IF mScene = NULL THEN orphaned ELSE orphaned \cup {mScene}
    /\ last' = [NoCall("GetOrphanedScene") EXCEPT !.ret = mScene]
    /\ UNCHANGED <<mImporter, mScene, mErrorString, mPPShared, bExtraVerbose, build, freed, deletes,
                   nextScene>>
    /\ UNCHANGED <<ioVars, propVars, other, memVars, animVars>>

GetOrphanedScene ==
    /\ orphaned' = IF mScene = NULL THEN orphaned ELSE orphaned \cup {mScene}
    /\ mScene' = NULL
    /\ last' = [NoCall("GetOrphanedScene") EXCEPT !.ret = mScene]
    /\ UNCHANGED <<mImporter, mErrorString, mPPShared, bExtraVerbose, build, freed, deletes,
                   nextScene>>
    /\ UNCHANGED <<ioVars, propVars, other, memVars, animVars>>

\* Importer::RegisterLoader, lines 901-927
RegisterLoaderRefusesHandled(pImp) ==
    /\ Len(mImporter) < MaxImporters
    /\ IF \E k \in DOMAIN mImporter : ExtensionsOf(mImporter[k]) \cap ExtensionsOf(pImp) # {}
       THEN /\ mImporter' = mImporter
            /\ last' = [NoCall("RegisterLoader") EXCEPT !.imp = pImp, !.ret = AI_FAILURE]
       ELSE /\ mImporter' = Append(mImporter, pImp)
            /\ last' = [NoCall("RegisterLoader") EXCEPT !.imp = pImp, !.ret = AI_SUCCESS]
    /\ UNCHANGED <<mScene, mErrorString, mPPShared, bExtraVerbose, build, freed, deletes, orphaned,
                   nextScene>>
    /\ UNCHANGED <<ioVars, propVars, other, memVars, animVars>>

RegisterLoader(pImp) ==
    /\ Len(mImporter) < MaxImporters
    /\ mImporter' = Append(mImporter, pImp)
    /\ last' = [NoCall("RegisterLoader") EXCEPT !.imp = pImp, !.ret = AI_SUCCESS]
    /\ UNCHANGED <<mScene, mErrorString, mPPShared, bExtraVerbose, build, freed, deletes, orphaned,
                   nextScene>>
    /\ UNCHANGED <<ioVars, propVars, other, memVars, animVars>>

\* std::vector::erase of the first element equal to pImp
EraseFirst(list, pImp) ==
    LET it == CHOOSE i \in DOMAIN list :
                  list[i] = pImp /\ \A j \in 1..(i - 1) : list[j] # pImp
    IN  SubSeq(list, 1, it - 1) \o SubSeq(list, it + 1, Len(list))

\* Importer::UnregisterLoader, lines 931-950
UnregisterLoader(pImp) ==
    /\ IF pImp \in Range(mImporter)
       THEN /\ mImporter' = EraseFirst(mImporter, pImp)
            /\ last' = [NoCall("UnregisterLoader") EXCEPT !.imp = pImp, !.ret = AI_SUCCESS]
       ELSE /\ mImporter' = mImporter
            /\ last' = [NoCall("UnregisterLoader") EXCEPT !.imp = pImp, !.ret = AI_FAILURE]
    /\ UNCHANGED <<mScene, mErrorString, mPPShared, bExtraVerbose, build, freed, deletes, orphaned,
                   nextScene>>
    /\ UNCHANGED <<ioVars, propVars, other, memVars, animVars>>

Next ==
    \/ \E r \in Requests(mImporter) : ReadFile(r.pFile, r.pFlags, r.fault)
    \/ FreeScene
    \/ GetOrphanedScene
    \/ \E pImp \in CustomImporters : RegisterLoader(pImp)
    \/ \E pImp \in CustomImporters : UnregisterLoader(pImp)

Spec == Init /\ [][Next]_vars

----------------------------------------------------------------------------
(* The pipeline under every pair of flags.  The order of two stages shows  *)
(* when both run: the requests are the single flags, the pairs of flags,   *)
(* the request of the split scenario and all flags at once.  The decode    *)
(* succeeds; the validation or a stage may fail.                           *)

AllFlags ==
    {aiProcess_CalcTangentSpace, aiProcess_JoinIdenticalVertices,
     aiProcess_ConvertToLeftHanded, aiProcess_Triangulate, aiProcess_RemoveComponent,
     aiProcess_GenNormals, aiProcess_GenSmoothNormals, aiProcess_SplitLargeMeshes,
     aiProcess_PreTransformVertices, aiProcess_LimitBoneWeights,
     aiProcess_ValidateDataStructure, aiProcess_ImproveCacheLocality,
     aiProcess_RemoveRedundantMaterials, aiProcess_FixInfacingNormals,
     aiProcess_SortByPType, aiProcess_FindDegenerates, aiProcess_FindInvalidData,
     aiProcess_GenUVCoords, aiProcess_TransformUVCoords, aiProcess_FindInstances,
     aiProcess_FlipUVs, aiProcess_FlipWindingOrder}

RECURSIVE SumOf(_)
SumOf(bits) ==
    IF bits = {} THEN 0 ELSE LET b == CHOOSE x \in bits : TRUE IN b + SumOf(bits \ {b})

SplitScenarioFlags ==
    aiProcess_Triangulate + aiProcess_GenNormals + aiProcess_SplitLargeMeshes

PipelineFlagChoices ==
    {0, SplitScenarioFlags, SumOf(AllFlags)}
    \cup {SumOf({a, b}) : a \in AllFlags, b \in AllFlags}

PipelineFaults(pFlags) ==
    {NoFault}
    \cup {FaultAt("ValidateDS", "", FALSE, "invalid") : x \in
              {y \in {1} : HasBit(pFlags, aiProcess_ValidateDataStructure)}}
    \cup {FaultAt("StageExecute", st, FALSE, ImportErrorException) :
              st \in ActiveSteps(pFlags) \cap FaultyStages}

PipelineRequests ==
    UNION {{Request(PathObj, fl, f) : f \in PipelineFaults(fl)} : fl \in PipelineFlagChoices}

\* the caller frees the scene before the next import
NextPipeline ==
    \/ /\ mScene = NULL
       /\ \E r \in PipelineRequests : ReadFile(r.pFile, r.pFlags, r.fault)
    \/ FreeScene

SpecPipeline == Init /\ [][NextPipeline]_vars

----------------------------------------------------------------------------
(* Further operations, each exercised in a specification of its own *)

\* Importer::Importer() in any build of the library
InitAnyBuild ==
    /\ InitObjects
    /\ mImporter = BuiltinImporters
    /\ mScene = NULL
    /\ mErrorString = EmptyString
    /\ mPPShared = {}
    /\ bExtraVerbose = FALSE
    /\ build \in Builds
    /\ freed = {}
    /\ deletes = NoDeletes
    /\ orphaned = {}
    /\ nextScene = 1
    /\ last = NoCall("Importer")

\* the object exists and its process runs: no ai_assert has failed and the
\* destructor has not run
Alive == last.pc # "aborted" /\ last.op # "~Importer"

\* Importer::SetExtraVerbose, lines 1017-1020
SetExtraVerbose(bDo) ==
    /\ bExtraVerbose' = bDo
    /\ last' = NoCall("SetExtraVerbose")
    /\ UNCHANGED <<mImporter, mScene, mErrorString, mPPShared, build, freed, deletes, orphaned,
                   nextScene>>
    /\ UNCHANGED <<ioVars, propVars, other, memVars, animVars>>

\* Importer::~Importer, lines 866-884: delete mIOHandler, delete mScene
Destructor ==
    /\ ioHeap' = DeleteHandle(ioHeap, mIOHandler)
    /\ freed' = IF mScene = NULL THEN freed ELSE freed \cup {mScene}
    /\ deletes' = CountDelete(deletes, mScene)
    /\ last' = NoCall("~Importer")
    /\ UNCHANGED <<mImporter, mScene, mErrorString, mPPShared, bExtraVerbose, build,
                   orphaned, nextScene>>
    /\ UNCHANGED <<mIOHandler, mIsDefaultHandler, hist, propVars, other, memVars, animVars>>

\* sizeof(unsigned int) * 8, line 1057
UIntBits == 32

\* An unsigned int of 32 bits is the number of its low 31 bits (lo) and its
\* highest bit (hi).
UInt(lo, hi) == [lo |-> lo, hi |-> hi]

\* pFlags &= ~bit, for a single bit
ClearBit(pFlags, bit) == IF HasBit(pFlags, bit) THEN pFlags - bit ELSE pFlags

\* lines 1060-1067: some stage of the pipeline is active for the mask
HaveStage(mask) ==
    \E a \in DOMAIN PostProcessingSteps : IsActive(PostProcessingSteps[a], mask)

\* lines 1057-1072: for (mask = 1; mask < (1 << (sizeof(unsigned int)*8-1));
\* mask <<= 1), with mask = 2^pos: the loop ends when mask reaches the highest
\* bit, which it never tests
RECURSIVE ValidateFlagsLoop(_, _)
ValidateFlagsLoop(pFlags, pos) ==
    IF ~(pos < UIntBits - 1) THEN TRUE
    ELSE IF HasBit(pFlags.lo, 2 ^ pos) /\ ~HaveStage(2 ^ pos) THEN FALSE
    ELSE ValidateFlagsLoop(pFlags, pos + 1)

\* Importer::ValidateFlags, lines 1040-1074: the value returned
ValidateFlagsResult(pFlags, bld) ==
    IF ~ValidateFlagsBasic(pFlags.lo) THEN FALSE
    ELSE IF ~bld.validateds /\ HasBit(pFlags.lo, aiProcess_ValidateDataStructure) THEN FALSE
    ELSE ValidateFlagsLoop(
             [pFlags EXCEPT !.lo = ClearBit(@, aiProcess_ValidateDataStructure)], 0)

\* Importer::ValidateFlags, lines 1040-1074
ValidateFlags(pFlags) ==
    /\ last' = [NoCall("ValidateFlags") EXCEPT
                    !.pFlags = pFlags.lo, !.hi = pFlags.hi,
                    !.ret = BoolValue(ValidateFlagsResult(pFlags, build))]
    /\ UNCHANGED <<mImporter, mScene, mErrorString, mPPShared, bExtraVerbose, build, freed, deletes,
                   orphaned, nextScene>>
    /\ UNCHANGED <<ioVars, propVars, other, memVars, animVars>>

----------------------------------------------------------------------------
(* The catch block in the release builds with and without MSVC RTTI *)

InitCatch == InitAnyBuild /\ build \in ReleaseBuilds

CatchRequests ==
    UNION {{Request(PathObj, fl, f) : f \in {NoFault} \cup ImportFaults(fl)} :
              fl \in FlagChoices}

NextCatch ==
    \/ \E r \in CatchRequests : ReadFile(r.pFile, r.pFlags, r.fault)
    \/ FreeScene

SpecCatch == InitCatch /\ [][NextCatch]_vars

----------------------------------------------------------------------------
(* Extra verbose mode in every build *)

VerboseFlagChoices ==
    { 0,
      aiProcess_ValidateDataStructure + aiProcess_Triangulate,
      aiProcess_JoinIdenticalVertices,
      aiProcess_GenNormals + aiProcess_GenSmoothNormals }

\* the validation or a stage fails, or the validation that follows a stage does
VerboseFaults(pFlags) ==
    PipelineFaults(pFlags)
    \cup {FaultAt("Revalidate", st, FALSE, "invalid") :
              st \in {"RemoveVCProcess", "TriangulateProcess"}}

VerboseRequests ==
    UNION {{Request(PathObj, fl, f) : f \in VerboseFaults(fl)} : fl \in VerboseFlagChoices}

NextVerbose ==
    \/ Alive /\ \E r \in VerboseRequests : ReadFile(r.pFile, r.pFlags, r.fault)
    \/ Alive /\ \E bDo \in BOOLEAN : SetExtraVerbose(bDo)
    \/ Alive /\ FreeScene

SpecVerbose == InitAnyBuild /\ [][NextVerbose]_vars

----------------------------------------------------------------------------
(* ValidateFlags on 32-bit words *)

\* bits no stage services: 2^14 and 2^30
UnservicedBits == {2 ^ 14, 2 ^ 30}

FlagWordBits ==
    {aiProcess_GenNormals, aiProcess_GenSmoothNormals, aiProcess_ValidateDataStructure,
     aiProcess_Triangulate} \cup UnservicedBits

FlagWords == {UInt(SumOf(bits), hi) : bits \in SUBSET FlagWordBits, hi \in BOOLEAN}

NextFlags ==
    \/ Alive /\ \E w \in FlagWords : ValidateFlags(w)
    \/ Alive /\ ReadFile(PathObj, 0, NoFault)
    \/ Alive /\ FreeScene

\* ValidateFlags reads of the build only whether the validation stage is there
InitFlags == InitAnyBuild /\ ~build.rtti /\ ~build.debug

SpecFlags == InitFlags /\ [][NextFlags]_vars

----------------------------------------------------------------------------
(* Ownership of the scene *)

OwnershipRequests ==
    {Request(p, 0, f) : p \in {PathObj, PathMissing}, f \in {NoFault} \cup DecodeFaults}
    \cup {Request(PathObj, fl, f) : fl \in {aiProcess_Triangulate},
              f \in {FaultAt("StageExecute", "TriangulateProcess", FALSE, k) : k \in ExcKinds}}

NextOwnership ==
    \/ Alive /\ \E r \in OwnershipRequests : ReadFile(r.pFile, r.pFlags, r.fault)
    \/ Alive /\ FreeScene
    \/ Alive /\ GetOrphanedScene
    \/ Alive /\ Destructor

SpecOwnership == Init /\ [][NextOwnership]_vars

----------------------------------------------------------------------------
(* The I/O handle of the dispatcher.  A caller passes NULL, a handle it    *)
(* allocates for the call, or a handle that exists and has not been        *)
(* deleted (one it passed before, or the one GetIOHandler gave it).        *)

\* a call about the I/O handle: the argument and the value returned
IoCall(op, arg, ret) == [op |-> op, arg |-> arg, ret |-> ret]

\* the log keeps the last three calls
Remember(h, call) ==
    IF Len(h) < 3 THEN Append(h, call) ELSE Append(Tail(h), call)

\* the handles a caller can pass without touching a deleted object
LiveHandles == {h \in IOHandles : ioHeap[h].kind # "unallocated" /\ ioHeap[h].deleted = 0}

\* the caller's new expression for a handle of its own
CallerNew(heap, h) ==
    IF h # NULL /\ heap[h].kind = "unallocated" THEN NewHandle(heap, h, "custom") ELSE heap

\* the arguments of SetIOHandler
HandleChoices == {NULL} \cup LiveHandles \cup {NextHandle(ioHeap)}

\* Importer::SetIOHandler, lines 954-972
SetIOHandlerKeepsOld(pIOHandler) ==
    /\ IF pIOHandler = NULL
       THEN /\ NextHandle(ioHeap) # NULL
            /\ mIOHandler' = NextHandle(ioHeap)
            /\ mIsDefaultHandler' = TRUE
            /\ ioHeap' = NewHandle(ioHeap, NextHandle(ioHeap), "default")
       ELSE /\ ioHeap' = CallerNew(ioHeap, pIOHandler)
            /\ UNCHANGED <<mIOHandler, mIsDefaultHandler>>
    /\ hist' = Remember(hist, IoCall("SetIOHandler", pIOHandler, NULL))
    /\ last' = NoCall("SetIOHandler")
    /\ UNCHANGED <<mImporter, mScene, mErrorString, mPPShared, bExtraVerbose, build, freed, deletes,
                   orphaned, nextScene, propVars, other, memVars, animVars>>

SetIOHandler(pIOHandler) ==
    /\ IF pIOHandler = NULL
       THEN \* delete mIOHandler is commented out, line 960
            /\ NextHandle(ioHeap) # NULL
            /\ mIOHandler' = NextHandle(ioHeap)
            /\ mIsDefaultHandler' = TRUE
            /\ ioHeap' = NewHandle(ioHeap, NextHandle(ioHeap), "default")
       ELSE IF mIOHandler # pIOHandler
       THEN /\ ioHeap' = DeleteHandle(CallerNew(ioHeap, pIOHandler), mIOHandler)
            /\ mIOHandler' = pIOHandler
            /\ mIsDefaultHandler' = FALSE
       ELSE /\ ioHeap' = CallerNew(ioHeap, pIOHandler)
            /\ UNCHANGED <<mIOHandler, mIsDefaultHandler>>
    /\ hist' = Remember(hist, IoCall("SetIOHandler", pIOHandler, NULL))
    /\ last' = NoCall("SetIOHandler")
    /\ UNCHANGED <<mImporter, mScene, mErrorString, mPPShared, bExtraVerbose, build, freed, deletes,
                   orphaned, nextScene, propVars, other, memVars, animVars>>

\* Importer::GetIOHandler, lines 975-978
GetIOHandler ==
    /\ hist' = Remember(hist, IoCall("GetIOHandler", NULL, mIOHandler))
    /\ last' = [NoCall("GetIOHandler") EXCEPT !.ret = mIOHandler]
    /\ UNCHANGED <<mImporter, mScene, mErrorString, mPPShared, bExtraVerbose, build, freed, deletes,
                   orphaned, nextScene, mIOHandler, mIsDefaultHandler, ioHeap, propVars,
                   other, memVars, animVars>>

\* Importer::IsDefaultIOHandler, lines 981-984
IsDefaultIOHandler ==
    /\ hist' = Remember(hist, IoCall("IsDefaultIOHandler", NULL, BoolValue(mIsDefaultHandler)))
    /\ last' = [NoCall("IsDefaultIOHandler") EXCEPT !.ret = BoolValue(mIsDefaultHandler)]
    /\ UNCHANGED <<mImporter, mScene, mErrorString, mPPShared, bExtraVerbose, build, freed, deletes,
                   orphaned, nextScene, mIOHandler, mIsDefaultHandler, ioHeap, propVars,
                   other, memVars, animVars>>

NextIO ==
    \/ Alive /\ \E h \in HandleChoices : SetIOHandler(h)
    \/ Alive /\ GetIOHandler
    \/ Alive /\ IsDefaultIOHandler
    \/ Alive /\ Destructor

SpecIO == Init /\ [][NextIO]_vars

----------------------------------------------------------------------------
(* The property store: three maps from the name of a property to its      *)
(* value.  A float is written as its literal, a string as its tokens.      *)

PropertyNames == {"k1", "k2"}

IntValues == {0, 7}

FloatValues == {"0.5f", "2.0f"}

StringValues == {<<>>, <<"v">>}

\* the values a caller passes as the default of a getter
IntDefaults == IntValues \cup {-1}

FloatDefaults == FloatValues \cup {"10e10"}

StringDefaults == StringValues \cup {<<"none">>}

\* SetGenericProperty<T>(list, szName, value, bWasExisting): the map afterwards
SetGenericProperty(list, szName, value) ==
    [k \in DOMAIN list \cup {szName} |-> IF k = szName THEN value ELSE list[k]]

\* GetGenericProperty<T>(list, szName, errorReturn)
GetGenericProperty(list, szName, errorReturn) ==
    IF szName \in DOMAIN list THEN list[szName] ELSE errorReturn

\* the record of a property call: the name is kept in pFile and what
\* bWasExisting receives in ret
PropertyCall(op, list, szName) ==
    [NoCall(op) EXCEPT !.pFile = <<szName>>, !.ret = BoolValue(szName \in DOMAIN list)]

\* Importer::SetPropertyInteger, lines 1286-1290
SetPropertyIntegerIntoFloats(szName, iValue) ==
    /\ mFloatProperties' = SetGenericProperty(mFloatProperties, szName, "0.5f")
    /\ last' = PropertyCall("SetPropertyInteger", mIntProperties, szName)
    /\ UNCHANGED <<mImporter, mScene, mErrorString, mPPShared, bExtraVerbose, build, freed, deletes,
                   orphaned, nextScene, ioVars, mIntProperties, mStringProperties,
                   other, memVars, animVars>>

SetPropertyInteger(szName, iValue) ==
    /\ mIntProperties' = SetGenericProperty(mIntProperties, szName, iValue)
    /\ last' = PropertyCall("SetPropertyInteger", mIntProperties, szName)
    /\ UNCHANGED <<mImporter, mScene, mErrorString, mPPShared, bExtraVerbose, build, freed, deletes,
                   orphaned, nextScene, ioVars, mFloatProperties, mStringProperties,
                   other, memVars, animVars>>

\* Importer::SetPropertyFloat, lines 1294-1298
SetPropertyFloat(szName, iValue) ==
    /\ mFloatProperties' = SetGenericProperty(mFloatProperties, szName, iValue)
    /\ last' = PropertyCall("SetPropertyFloat", mFloatProperties, szName)
    /\ UNCHANGED <<mImporter, mScene, mErrorString, mPPShared, bExtraVerbose, build, freed, deletes,
                   orphaned, nextScene, ioVars, mIntProperties, mStringProperties,
                   other, memVars, animVars>>

\* Importer::SetPropertyString, lines 1302-1306
SetPropertyString(szName, value) ==
    /\ mStringProperties' = SetGenericProperty(mStringProperties, szName, value)
    /\ last' = PropertyCall("SetPropertyString", mStringProperties, szName)
    /\ UNCHANGED <<mImporter, mScene, mErrorString, mPPShared, bExtraVerbose, build, freed, deletes,
                   orphaned, nextScene, ioVars, mIntProperties, mFloatProperties,
                   other, memVars, animVars>>

\* Importer::GetPropertyInteger, lines 1310-1314 (a const method)
GetPropertyInteger(szName, iErrorReturn) ==
    GetGenericProperty(mIntProperties, szName, iErrorReturn)

\* Importer::GetPropertyFloat, lines 1318-1322 (a const method)
GetPropertyFloat(szName, iErrorReturn) ==
    GetGenericProperty(mFloatProperties, szName, iErrorReturn)

\* Importer::GetPropertyString, lines 1326-1330 (a const method)
GetPropertyString(szName, iErrorReturn) ==
    GetGenericProperty(mStringProperties, szName, iErrorReturn)

NextProperties ==
    \/ \E k \in PropertyNames, v \in IntValues : SetPropertyInteger(k, v)
    \/ \E k \in PropertyNames, v \in FloatValues : SetPropertyFloat(k, v)
    \/ \E k \in PropertyNames, v \in StringValues : SetPropertyString(k, v)
    \/ FreeScene

SpecProperties == Init /\ [][NextProperties]_vars

----------------------------------------------------------------------------
(* The copy constructor.  The variable other is the Importer constructed   *)
(* as a copy of the dispatcher; the operations of the model run on either. *)
(* The two objects allocate from the same heap: the scenes are numbered by *)
(* nextScene and the IOSystem objects live in ioHeap.                      *)

\* the members of the dispatcher, as a record like other
ThisObject ==
    [exists |-> TRUE, mImporter |-> mImporter, mScene |-> mScene,
     mErrorString |-> mErrorString, mPPShared |-> mPPShared,
     bExtraVerbose |-> bExtraVerbose, mIOHandler |-> mIOHandler,
     mIsDefaultHandler |-> mIsDefaultHandler, mIntProperties |-> mIntProperties,
     mFloatProperties |-> mFloatProperties, mStringProperties |-> mStringProperties]

\* Importer::Importer(), lines 652-862, for an object whose DefaultIOSystem
\* is the handle h
Constructed(h) ==
    [exists |-> TRUE, mImporter |-> BuiltinImporters, mScene |-> NULL,
     mErrorString |-> EmptyString, mPPShared |-> {}, bExtraVerbose |-> FALSE,
     mIOHandler |-> h, mIsDefaultHandler |-> TRUE, mIntProperties |-> EmptyMap,
     mFloatProperties |-> EmptyMap, mStringProperties |-> EmptyMap]

\* Importer::Importer(const Importer&), lines 886-897
CopyConstructMemberwise ==
    /\ ~other.exists
    /\ other' = ThisObject
    /\ last' = NoCall("Importer(const Importer&)")
    /\ UNCHANGED <<mImporter, mScene, mErrorString, mPPShared, bExtraVerbose, build, freed, deletes,
                   orphaned, nextScene, ioVars, propVars, memVars, animVars>>

CopyConstruct ==
    /\ ~other.exists
    /\ NextHandle(ioHeap) # NULL
    /\ other' = [Constructed(NextHandle(ioHeap)) EXCEPT
                     !.mIntProperties = mIntProperties,
                     !.mFloatProperties = mFloatProperties,
                     !.mStringProperties = mStringProperties]
    /\ ioHeap' = NewHandle(ioHeap, NextHandle(ioHeap), "default")
    /\ last' = NoCall("Importer(const Importer&)")
    /\ UNCHANGED <<mImporter, mScene, mErrorString, mPPShared, bExtraVerbose, build, freed, deletes,
                   orphaned, nextScene, mIOHandler, mIsDefaultHandler, hist, propVars,
                   memVars, animVars>>

\* the call record of a ReadFile on the object o
CallRecordOf(o) ==
    [mScene |-> o.mScene, mErrorString |-> o.mErrorString, mPPShared |-> o.mPPShared,
     bExtraVerbose |-> o.bExtraVerbose, build |-> build,
     freed |-> freed, deletes |-> deletes, nextScene |-> nextScene, imp |-> NoImp,
     impErrorText |-> EmptyString, pc |-> "run", exc |-> "", ret |-> NULL,
     trace |-> <<>>]

\* Importer::ReadFile, lines 1078-1239, on the copy
OtherReadFile(pFile, pFlags, fault) ==
    /\ other.exists
    /\ nextScene <= MaxScenes
    /\ \E d \in {ReadFileBody(CallRecordOf(other), other.mImporter, pFile, pFlags, fault,
                              build)} :
           /\ fault = NoFault \/ FaultFired(d)
           /\ other' = [other EXCEPT !.mScene = d.mScene,
                                     !.mErrorString = d.mErrorString,
                                     !.mPPShared = d.mPPShared]
           /\ freed' = d.freed
           /\ deletes' = d.deletes
           /\ nextScene' = d.nextScene
           /\ last' = [op |-> "other.ReadFile", pFile |-> pFile, pFlags |-> pFlags,
                       hi |-> FALSE, pc |-> d.pc, ret |-> d.ret, imp |-> d.imp,
                       trace |-> d.trace]
    /\ UNCHANGED <<mImporter, mScene, mErrorString, mPPShared, bExtraVerbose, build,
                   orphaned, ioVars, propVars, memVars, animVars>>

OtherFreeSceneOfBoth ==
    /\ other.exists
    /\ freed' = (IF other.mScene = NULL THEN freed ELSE freed \cup {other.mScene})
                    \cup (IF mScene = NULL THEN {} ELSE {mScene})
    /\ deletes' = CountDelete(CountDelete(deletes, other.mScene), mScene)
    /\ other' = [other EXCEPT !.mScene = NULL]
    /\ mScene' = NULL
    /\ last' = NoCall("other.FreeScene")
    /\ UNCHANGED <<mImporter, mErrorString, mPPShared, bExtraVerbose, build,
                   orphaned, nextScene, ioVars, propVars, memVars, animVars>>

\* Importer::FreeScene, lines 1002-1006, on the copy
OtherFreeScene ==
    /\ other.exists
    /\ freed' = IF other.mScene = NULL THEN freed ELSE freed \cup {other.mScene}
    /\ deletes' = CountDelete(deletes, other.mScene)
    /\ other' = [other EXCEPT !.mScene = NULL]
    /\ last' = NoCall("other.FreeScene")
    /\ UNCHANGED <<mImporter, mScene, mErrorString, mPPShared, bExtraVerbose, build,
                   orphaned, nextScene, ioVars, propVars, memVars, animVars>>

\* Importer::SetPropertyInteger, lines 1286-1290, on the copy
OtherSetPropertyInteger(szName, iValue) ==
    /\ other.exists
    /\ other' = [other EXCEPT !.mIntProperties = SetGenericProperty(@, szName, iValue)]
    /\ last' = PropertyCall("other.SetPropertyInteger", other.mIntProperties, szName)
    /\ UNCHANGED <<mImporter, mScene, mErrorString, mPPShared, bExtraVerbose, build, freed, deletes,
                   orphaned, nextScene, ioVars, propVars, memVars, animVars>>

\* the imports of the model on either object: one that succeeds, one that
\* finds no file
CopyRequests == {Request(p, 0, NoFault) : p \in {PathObj, PathMissing}}

NextCopy ==
    \/ CopyConstruct
    \/ \E v \in IntValues : SetPropertyInteger("k1", v)
    \/ SetPropertyFloat("k1", "2.0f")
    \/ \E r \in CopyRequests : ReadFile(r.pFile, r.pFlags, r.fault)
    \/ FreeScene
    \/ \E pImp \in CustomImporters : RegisterLoader(pImp)
    \/ \E v \in IntValues : OtherSetPropertyInteger("k1", v)
    \/ OtherReadFile(PathObj, 0, NoFault)
    \/ OtherFreeScene

SpecCopy == Init /\ [][NextCopy]_vars

----------------------------------------------------------------------------
(* The importer list: RegisterLoader, UnregisterLoader and the extension   *)
(* query.  A caller holds the loaders it allocated and can obtain the      *)
(* built-in ones from FindLoader, so it can pass any of them.  The _DEBUG  *)
(* block of RegisterLoader (lines 913-921) only writes warnings to the log.*)

\* the loaders passed to RegisterLoader and UnregisterLoader
LoaderChoices == Range(BuiltinImporters) \cup CustomImporters \cup {"PlyLoader"}

\* the strings passed to IsExtensionSupported
ExtensionChoices ==
    {<<".", "obj">>, <<".", "x">>, <<".", "ply">>, <<".", "zzz">>, <<"obj">>}

\* Importer::FindLoader, lines 1250-1260, from the list position a on: the
\* importer found (NoImp for NULL) and the calls made.  Every call is
\* CanRead(szExtension, NULL, false).
RECURSIVE FindLoaderFrom(_, _, _)
FindLoaderFrom(list, a, szExtension) ==
    IF a > Len(list) THEN [imp |-> NoImp, trace |-> <<>>]
    ELSE IF CanRead(list[a], szExtension, FALSE)
    THEN [imp |-> list[a], trace |-> <<Ev("CanRead(NULL)", list[a], FALSE, "true")>>]
    ELSE [FindLoaderFrom(list, a + 1, szExtension) EXCEPT
             !.trace = <<Ev("CanRead(NULL)", list[a], FALSE, "false")>> \o @]

FindLoaderSkipsFirst(list, szExtension) == FindLoaderFrom(list, 2, szExtension)

FindLoader(list, szExtension) == FindLoaderFrom(list, 1, szExtension)

\* Importer::IsExtensionSupported, lines 1243-1246
IsExtensionSupported(szExtension) ==
    /\ \E f \in {FindLoader(mImporter, szExtension)} :
           last' = [NoCall("IsExtensionSupported") EXCEPT
                        !.pFile = szExtension, !.ret = BoolValue(f.imp # NoImp),
                        !.imp = f.imp, !.trace = f.trace]
    /\ UNCHANGED <<mImporter, mScene, mErrorString, mPPShared, bExtraVerbose, build, freed, deletes,
                   orphaned, nextScene, ioVars, propVars, other, memVars, animVars>>

NextLoaders ==
    \/ \E pImp \in LoaderChoices : RegisterLoader(pImp)
    \/ \E pImp \in LoaderChoices : UnregisterLoader(pImp)
    \/ \E szExtension \in ExtensionChoices : IsExtensionSupported(szExtension)

SpecLoaders == Init /\ [][NextLoaders]_vars

----------------------------------------------------------------------------
(* Importer::GetMemoryRequirements, lines 1345-1442.  The sizes of the     *)
(* structures are those of one platform; the sums are sums of unsigned     *)
(* int, far below its range in the scenes of the model.                    *)

\* sizeof
SizeOf(type) ==
    CASE type = "aiScene"          -> 64
      [] type = "aiMesh"           -> 120
      [] type = "aiVector3D"       -> 12
      [] type = "aiColor4D"        -> 16
      [] type = "void*"            -> 4
      [] type = "unsigned int"     -> 4
      [] type = "aiBone"           -> 80
      [] type = "aiVertexWeight"   -> 8
      [] type = "aiFace"           -> 8
      [] type = "aiTexture"        -> 20
      [] type = "aiAnimation"      -> 36
      [] type = "aiNodeAnim"       -> 28
      [] type = "aiVectorKey"      -> 20
      [] type = "aiQuatKey"        -> 24
      [] type = "aiCamera"         -> 52
      [] type = "aiLight"          -> 76
      [] type = "aiNode"           -> 92
      [] type = "aiMaterial"       -> 12

\* the sum of the numbers F(list[1]), ..., F(list[n])
RECURSIVE SumOver(_, _, _)
SumOver(F(_), list, n) ==
    IF n = 0 THEN 0 ELSE SumOver(F, list, n - 1) + F(list[n])

\* lines 1356-1384: one mesh
MeshWeight(m) ==
    SizeOf("aiMesh")
    + (IF m.mNumVertices > 0 THEN SizeOf("aiVector3D") * m.mNumVertices ELSE 0)
    + (IF m.normals THEN SizeOf("aiVector3D") * m.mNumVertices ELSE 0)
    + (IF m.tangents THEN SizeOf("aiVector3D") * m.mNumVertices * 2 ELSE 0)
    + m.colors * SizeOf("aiColor4D") * m.mNumVertices
    + m.uvs * SizeOf("aiVector3D") * m.mNumVertices
    + (IF Len(m.bones) > 0
       THEN SizeOf("void*") * Len(m.bones)
            + SumOver(LAMBDA w : SizeOf("aiBone") + w * SizeOf("aiVertexWeight"),
                      m.bones, Len(m.bones))
       ELSE 0)
    + (SizeOf("aiFace") + 3 * SizeOf("unsigned int")) * m.mNumFaces

\* lines 1391-1399: one embedded texture
TextureWeight(t) ==
    SizeOf("aiTexture")
    + (IF t.mHeight # 0 THEN 4 * t.mHeight * t.mWidth ELSE t.mWidth)

\* lines 1412-1416: what one pass of the inner loop adds for the channel pc2
ChannelWeight(pc2) ==
    SizeOf("aiNodeAnim")
    + pc2.mNumPositionKeys * SizeOf("aiVectorKey")
    + pc2.mNumScalingKeys * SizeOf("aiVectorKey")
    + pc2.mNumRotationKeys * SizeOf("aiQuatKey")

\* line 1412, const aiNodeAnim* pc2 = pc->mChannels[i]: the channel read in
\* pass a of the inner loop is the one at the index i of the animation in
\* the scene (i counts from 1 here).  Past the end of mChannels the read is
\* of memory that holds no channel, and yields the record garbage.
ChannelRead(mChannels, i, a, garbage) ==
    IF i <= Len(mChannels) THEN mChannels[i] ELSE garbage

\* lines 1404-1418: the animation at index i
RECURSIVE AnimationWeight(_, _, _, _)
AnimationWeight(mChannels, i, a, garbage) ==
    IF a = 0 THEN SizeOf("aiAnimation")
    ELSE AnimationWeight(mChannels, i, a - 1, garbage)
         + ChannelWeight(ChannelRead(mChannels, i, a, garbage))

\* lines 1404-1419: the animations up to index n
RECURSIVE AnimationsWeight(_, _, _)
AnimationsWeight(mAnimations, n, garbage) ==
    IF n = 0 THEN 0
    ELSE AnimationsWeight(mAnimations, n - 1, garbage)
         + AnimationWeight(mAnimations[n], n, Len(mAnimations[n]), garbage)

\* some pass of the inner loop reads past the end of mChannels
ReadsPastEnd(mAnimations) ==
    \E i \in DOMAIN mAnimations : Len(mAnimations[i]) > 0 /\ i > Len(mAnimations[i])

\* AddNodeWeight, lines 1334-1341
RECURSIVE AddNodeWeight(_)
AddNodeWeight(pcNode) ==
    SizeOf("aiNode")
    + SizeOf("unsigned int") * pcNode.mNumMeshes
    + SizeOf("void*") * Len(pcNode.mChildren)
    + SumOver(AddNodeWeight, pcNode.mChildren, Len(pcNode.mChildren))

\* lines 1431-1439: one material
MaterialWeight(pc) ==
    SizeOf("aiMaterial")
    + pc.mNumAllocated * SizeOf("void*")
    + SumOver(LAMBDA mDataLength : mDataLength, pc.mProperties, Len(pc.mProperties))

\* lines 1352-1441 for the scene sc: the categories, and the total as the
\* statements in.total = sizeof(aiScene) and in.total += ... build it
MemoryInfoForgetsNodes(sc, garbage) ==
    LET meshes == SumOver(MeshWeight, sc.mMeshes, Len(sc.mMeshes))
        textures == SumOver(TextureWeight, sc.mTextures, Len(sc.mTextures))
        animations == AnimationsWeight(sc.mAnimations, Len(sc.mAnimations), garbage)
        cameras == SizeOf("aiCamera") * sc.mNumCameras
        lights == SizeOf("aiLight") * sc.mNumLights
        nodes == AddNodeWeight(sc.mRootNode)
        materials == SumOver(MaterialWeight, sc.mMaterials, Len(sc.mMaterials))
    IN  [textures |-> textures, materials |-> materials, meshes |-> meshes,
         nodes |-> nodes, animations |-> animations, cameras |-> cameras,
         lights |-> lights,
         total |-> SizeOf("aiScene") + meshes + textures + animations + cameras + lights
                   + materials,
         pc |-> "returned", oob |-> ReadsPastEnd(sc.mAnimations)]

MemoryInfo(sc, garbage) ==
    LET meshes == SumOver(MeshWeight, sc.mMeshes, Len(sc.mMeshes))
        textures == SumOver(TextureWeight, sc.mTextures, Len(sc.mTextures))
        animations == AnimationsWeight(sc.mAnimations, Len(sc.mAnimations), garbage)
        cameras == SizeOf("aiCamera") * sc.mNumCameras
        lights == SizeOf("aiLight") * sc.mNumLights
        nodes == AddNodeWeight(sc.mRootNode)
        materials == SumOver(MaterialWeight, sc.mMaterials, Len(sc.mMaterials))
    IN  [textures |-> textures, materials |-> materials, meshes |-> meshes,
         nodes |-> nodes, animations |-> animations, cameras |-> cameras,
         lights |-> lights,
         total |-> SizeOf("aiScene") + meshes + textures + animations + cameras + lights
                   + nodes + materials,
         pc |-> "returned", oob |-> ReadsPastEnd(sc.mAnimations)]

\* What a read past the end of mChannels does to the call: the process
\* faults, or the read yields some channel record.
Garbage(crash, channel) == [crash |-> crash, channel |-> channel]

GarbageChoices ==
    {Garbage(TRUE, Channel(0, 0, 0)), Garbage(FALSE, Channel(0, 0, 0)),
     Garbage(FALSE, Channel(9, 9, 9))}

\* Importer::GetMemoryRequirements, lines 1345-1442
GetMemoryRequirements(garbage) ==
    /\ memInfo' =
           IF mScene = NULL THEN [NoInfo EXCEPT !.pc = "returned"]
           ELSE IF ReadsPastEnd(content.mAnimations) /\ garbage.crash
           THEN [NoInfo EXCEPT !.pc = "crashed", !.oob = TRUE]
           ELSE MemoryInfo(content, garbage.channel)
    /\ last' = [NoCall("GetMemoryRequirements") EXCEPT
                    !.pc = IF mScene # NULL /\ ReadsPastEnd(content.mAnimations)
                              /\ garbage.crash
                           THEN "aborted" ELSE "returned"]
    /\ UNCHANGED <<mImporter, mScene, mErrorString, mPPShared, bExtraVerbose, build, freed, deletes,
                   orphaned, nextScene, ioVars, propVars, other, content, animVars>>

\* the channels of the model's animations
ChannelChoices == {Channel(1, 0, 2), Channel(3, 1, 0)}

\* the sequences over S of the lengths 0..n
SeqsUpTo(S, n) == UNION {[1..k -> S] : k \in 0..n}

\* the animation lists of the model's scenes
AnimationChoices == SeqsUpTo(SeqsUpTo(ChannelChoices, MaxChannels), MaxAnimations)

\* The scenes the decoders of the model build: a static mesh, or a skinned
\* one with a texture, cameras, lights and a node tree, each with every
\* animation list.
SceneChoices ==
    {SceneOf(<<Mesh(3, TRUE, FALSE, 0, 1, <<>>, 1)>>, <<>>, anims, 0, 0,
             Node(1, <<>>), <<[mNumAllocated |-> 1, mProperties |-> <<4>>]>>) :
         anims \in AnimationChoices}
    \cup
    {SceneOf(<<Mesh(4, TRUE, TRUE, 1, 2, <<2, 1>>, 2), Mesh(0, FALSE, FALSE, 0, 0, <<>>, 0)>>,
             <<[mWidth |-> 2, mHeight |-> 2], [mWidth |-> 10, mHeight |-> 0]>>,
             anims, 1, 2,
             Node(0, <<Node(1, <<>>), Node(1, <<Node(0, <<>>)>>)>>),
             <<[mNumAllocated |-> 2, mProperties |-> <<4, 8>>],
               [mNumAllocated |-> 0, mProperties |-> <<>>]>>) :
         anims \in AnimationChoices}

\* Importer::Importer() before the import of a file that decodes to one of
\* the scenes
InitMemory ==
    /\ mImporter = BuiltinImporters
    /\ mScene = NULL
    /\ mErrorString = EmptyString
    /\ mPPShared = {}
    /\ bExtraVerbose = FALSE
    /\ build = DefaultBuild
    /\ freed = {}
    /\ deletes = NoDeletes
    /\ orphaned = {}
    /\ nextScene = 1
    /\ last = NoCall("Importer")
    /\ mIOHandler = 1
    /\ mIsDefaultHandler = TRUE
    /\ ioHeap = NewHandle([h \in IOHandles |-> Unallocated], 1, "default")
    /\ hist = <<>>
    /\ mIntProperties = EmptyMap
    /\ mFloatProperties = EmptyMap
    /\ mStringProperties = EmptyMap
    /\ other = NoOther
    /\ content \in SceneChoices
    /\ memInfo = NoInfo
    /\ NoEvaluator

NextMemory ==
    \/ Alive /\ mScene = NULL /\ ReadFile(PathObj, 0, NoFault)
    \/ Alive /\ FreeScene
    \/ Alive /\ \E garbage \in GarbageChoices : GetMemoryRequirements(garbage)

SpecMemory == InitMemory /\ [][NextMemory]_vars

----------------------------------------------------------------------------
(* The pipeline loop when a stage fails in any way: its SetupProperties or *)
(* its Execute throws an ImportErrorException or a standard exception.     *)

StageFaults(pFlags) ==
    {NoFault}
    \cup {FaultAt(site, st, FALSE, k) :
              site \in {"StageSetup", "StageExecute"},
              st \in ActiveSteps(pFlags) \cap FaultyStages, k \in ExcKinds}

StageRequests ==
    UNION {{Request(PathObj, fl, f) : f \in StageFaults(fl)} : fl \in PipelineFlagChoices}

\* the caller frees the scene before the next import
NextStages ==
    \/ /\ mScene = NULL
       /\ \E r \in StageRequests : ReadFile(r.pFile, r.pFlags, r.fault)
    \/ FreeScene

SpecStages == Init /\ [][NextStages]_vars

----------------------------------------------------------------------------
(* ReadFile and ValidateFlags on the same bitsets, in every build *)

\* bitsets ValidateFlags rejects in some build - the exclusive pair, an
\* unserviced bit, the validation bit - and one it accepts in every build
CheckedFlagChoices ==
    { aiProcess_GenNormals + aiProcess_GenSmoothNormals,
      aiProcess_GenNormals + aiProcess_GenSmoothNormals + aiProcess_Triangulate + 2 ^ 14,
      aiProcess_Triangulate + 2 ^ 14,
      aiProcess_JoinIdenticalVertices + 2 ^ 30,
      aiProcess_ValidateDataStructure + aiProcess_Triangulate,
      aiProcess_Triangulate }

NextChecked ==
    \/ Alive /\ \E fl \in CheckedFlagChoices : ReadFile(PathObj, fl, NoFault)
    \/ Alive /\ \E fl \in CheckedFlagChoices : ValidateFlags(UInt(fl, FALSE))
    \/ Alive /\ FreeScene

SpecChecked == InitAnyBuild /\ [][NextChecked]_vars

----------------------------------------------------------------------------
(* The life of the scenes: imports that succeed or fail at any point,      *)
(* FreeScene, GetOrphanedScene and the destructor in any order             *)

LifetimeRequests ==
    {Request(PathMissing, 0, NoFault)}
    \cup UNION {{Request(PathObj, fl, f) : f \in {NoFault} \cup ImportFaults(fl)} :
                   fl \in FlagChoices}

NextLifetime ==
    \/ Alive /\ \E r \in LifetimeRequests : ReadFile(r.pFile, r.pFlags, r.fault)
    \/ Alive /\ FreeScene
    \/ Alive /\ GetOrphanedScene
    \/ Alive /\ Destructor

SpecLifetime == Init /\ [][NextLifetime]_vars

----------------------------------------------------------------------------
(* Reuse of a dispatcher: each part of its configuration is changed once, *)
(* between imports that succeed or fail at any point                       *)

\* the flags of the imports: the validation and a stage of the spatial-sort
\* window
ReuseFlags == aiProcess_ValidateDataStructure + aiProcess_JoinIdenticalVertices

\* imports of a file that is missing, of one without an extension with every
\* failure of a probe, and of one that decodes with every failure of the
\* decode and of the post-processing
ReuseRequests(list) ==
    {Request(PathMissing, 0, NoFault)}
    \cup {Request(PathNoExt, 0, f) : f \in ProbeFaults(list)}
    \cup {Request(PathObj, ReuseFlags, f) : f \in {NoFault} \cup ImportFaults(ReuseFlags)}

NextReuse ==
    \/ \E r \in ReuseRequests(mImporter) : ReadFile(r.pFile, r.pFlags, r.fault)
    \/ mImporter = BuiltinImporters /\ \E pImp \in CustomImporters : RegisterLoader(pImp)
    \/ ~bExtraVerbose /\ SetExtraVerbose(TRUE)
    \/ mIntProperties = EmptyMap /\ SetPropertyInteger("k1", 7)
    \/ mIsDefaultHandler /\ SetIOHandler(NextHandle(ioHeap))

SpecReuse == Init /\ [][NextReuse]_vars

----------------------------------------------------------------------------
(* Two dispatchers side by side: the dispatcher and a second one, with     *)
(* imports that succeed or fail on either                                  *)

\* an import that succeeds, one of a missing file, one whose decode fails
\* and one in which a stage of the spatial-sort window throws
TwoRequests ==
    { Request(PathObj, 0, NoFault),
      Request(PathMissing, 0, NoFault),
      Request(PathObj, 0, FaultAt("InternReadFile", "", FALSE, ImportErrorException)),
      Request(PathObj, aiProcess_JoinIdenticalVertices,
              FaultAt("StageExecute", "JoinVerticesProcess", FALSE, "std::bad_alloc")) }

NextTwo ==
    \/ CopyConstruct
    \/ \E r \in TwoRequests : ReadFile(r.pFile, r.pFlags, r.fault)
    \/ FreeScene
    \/ SetPropertyInteger("k1", 7)
    \/ \E r \in TwoRequests : OtherReadFile(r.pFile, r.pFlags, r.fault)
    \/ OtherFreeScene
    \/ OtherSetPropertyInteger("k1", 0)

SpecTwo == Init /\ [][NextTwo]_vars

----------------------------------------------------------------------------
(* The animation evaluator of the viewer: AnimEvaluator, src/unnamed/part_000 *)

\* most keys of one key array, and the latest key time in ticks
MaxKeys == 3

MaxKeyTime == 3

\* the ticks per second assumed when the animation gives none, line 62
DefaultTicksPerSecond == 25

\* a key array, each key written as its mTime (its mValue is named by the
\* index of the key); the times of a key array are non-decreasing
KeyArrays ==
    {keys \in SeqsUpTo(0..MaxKeyTime, MaxKeys) :
        \A k \in 1..(Len(keys) - 1) : keys[k] <= keys[k + 1]}

\* aiNodeAnim: the three key arrays of a channel
NodeAnim(mPositionKeys, mRotationKeys, mScalingKeys) ==
    [mPositionKeys |-> mPositionKeys, mRotationKeys |-> mRotationKeys,
     mScalingKeys |-> mScalingKeys]

\* the key arrays of a channel in the order of the tuple of cached frames:
\* get<0> positions, get<1> rotations, get<2> scalings
Tracks(channel) == <<channel.mPositionKeys, channel.mRotationKeys, channel.mScalingKeys>>

\* presentPosition( 0, 0, 0), presentRotation( 1, 0, 0, 0), presentScaling( 1, 1, 1),
\* lines 76, 95 and 112
DefaultValues == <<"(0,0,0)", "(1,0,0,0)", "(1,1,1)">>

NoKey == -1

\* channels with keys in one array, and channels whose three arrays differ
\* in length and in times
NodeAnimChoices ==
    {NodeAnim(keys, <<>>, <<>>) : keys \in KeyArrays}
        \cup {NodeAnim(<<>>, keys, <<>>) : keys \in KeyArrays}
        \cup {NodeAnim(<<>>, <<>>, keys) : keys \in KeyArrays}
        \cup {NodeAnim(keys, SubSeq(keys, 2, Len(keys)), SubSeq(keys, 1, Len(keys) - 1)) :
                 keys \in KeyArrays}

\* animations without channels, with one channel and with two channels
ChannelListChoices ==
    {<<>>} \cup {<<channel>> : channel \in NodeAnimChoices}
           \cup {<<NodeAnim(keys, SubSeq(keys, 2, Len(keys)), <<>>),
                   NodeAnim(<<>>, keys, SubSeq(keys, 1, Len(keys) - 1))>> : keys \in KeyArrays}

\* durations: the sentinel -1 and two lengths past the latest key; ticks per
\* second: the sentinel 0 and one tick per second
EvaluatedAnimations ==
    {Animation(mDuration, mTicksPerSecond, mChannels) :
        mDuration \in {-1, MaxKeyTime + 1, MaxKeyTime + 2},
        mTicksPerSecond \in {0, 1},
        mChannels \in ChannelListChoices}

\* the times a caller asks for, in seconds
EvaluateTimes == (-1)..(MaxKeyTime + 2)

\* what a read past the end of a key array may find as the time of a key
KeyGarbage == {0, MaxKeyTime + 1}

\* fmod( x, y) for y > 0: the remainder has the sign of x
Fmod(x, y) == IF x >= 0 THEN x % y ELSE -((-x) % y)

\* lines 62-69: the time in ticks, mapped into the duration of the animation
TimeInTicks(anim, pTime) ==
    LET ticksPerSecond ==
            IF anim.mTicksPerSecond # 0 THEN anim.mTicksPerSecond ELSE DefaultTicksPerSecond
    IN  IF anim.mDuration > 0 THEN Fmod(pTime * ticksPerSecond, anim.mDuration) ELSE 0

\* keys[k].mTime, k counted from 0
KeyTime(keys, k, garbage) == IF k \in 0..(Len(keys) - 1) THEN keys[k + 1] ELSE garbage

\* the search always starts at the cached frame
StartFrameFromCache(time, lastTime, cached) == cached

\* lines 81, 98, 115: (time >= mLastTime) ? mLastPositions[a].get<i>() : 0
StartFrame(time, lastTime, cached) == IF time >= lastTime THEN cached ELSE 0

\* the loop runs while frame < n
RECURSIVE FindFramePastEnd(_, _, _, _, _)
FindFramePastEnd(keys, frame, time, garbage, reads) ==
    IF frame < Len(keys)
    THEN IF time < KeyTime(keys, frame + 1, garbage)
         THEN [frame |-> frame, reads |-> reads \cup {frame + 1}]
         ELSE FindFramePastEnd(keys, frame + 1, time, garbage, reads \cup {frame + 1})
    ELSE [frame |-> frame, reads |-> reads]

\* lines 82-87, 99-104, 116-121: while( frame < n - 1) { if( time <
\* keys[frame+1].mTime) break; frame++; }, with the key indices it reads
RECURSIVE FindFrame(_, _, _, _, _)
FindFrame(keys, frame, time, garbage, reads) ==
    IF frame < Len(keys) - 1
    THEN IF time < KeyTime(keys, frame + 1, garbage)
         THEN [frame |-> frame, reads |-> reads \cup {frame + 1}]
         ELSE FindFrame(keys, frame + 1, time, garbage, reads \cup {frame + 1})
    ELSE [frame |-> frame, reads |-> reads]

\* lines 77-93, 96-110, 113-127: one key array of one channel; an empty array
\* is not indexed and leaves the cached frame alone
EvaluateTrack(keys, time, lastTime, cached, garbage) ==
    IF Len(keys) > 0
    THEN LET start == StartFrame(time, lastTime, cached)
             found == FindFrame(keys, start, time, garbage, {})
         IN  [indexed |-> TRUE, cached |-> cached, start |-> start, frame |-> found.frame,
              reads |-> found.reads \cup {found.frame}, cache |-> found.frame]
    ELSE [indexed |-> FALSE, cached |-> cached, start |-> 0, frame |-> NoKey,
          reads |-> {}, cache |-> cached]

\* the value a key array contributes to the matrix of its channel
PresentValue(i, track) ==
    IF track.indexed THEN [key |-> track.frame, value |-> "mValue"]
                     ELSE [key |-> NoKey, value |-> DefaultValues[i]]

\* AnimEvaluator::Evaluate, lines 58-142
Evaluate(pTime, garbage) ==
    LET time == TimeInTicks(mAnim, pTime)
        tracks == [a \in DOMAIN mAnim.mChannels |->
                      [i \in 1..3 |-> EvaluateTrack(Tracks(mAnim.mChannels[a])[i], time,
                                                    mLastTime, mLastPositions[a][i], garbage)]]
    IN  /\ mTransforms' = [a \in DOMAIN mAnim.mChannels |->
                              [i \in 1..3 |-> PresentValue(i, tracks[a][i])]]
        /\ mLastPositions' = [a \in DOMAIN mAnim.mChannels |->
                                 [i \in 1..3 |-> tracks[a][i].cache]]
        /\ mLastTime' = time
        /\ evaluated' = [done |-> TRUE, time |-> time, tracks |-> tracks]
        /\ UNCHANGED <<mAnim, mImporter, mScene, mErrorString, mPPShared, bExtraVerbose,
                       build, freed, deletes, orphaned, nextScene, last, ioVars, propVars,
                       other, memVars>>

\* the viewer constructs an evaluator on an animation of the scene
InitAnim ==
    /\ mImporter = BuiltinImporters
    /\ mScene = NULL
    /\ mErrorString = EmptyString
    /\ mPPShared = {}
    /\ bExtraVerbose = FALSE
    /\ build = DefaultBuild
    /\ freed = {}
    /\ deletes = NoDeletes
    /\ orphaned = {}
    /\ nextScene = 1
    /\ last = NoCall("Importer")
    /\ mIOHandler = 1
    /\ mIsDefaultHandler = TRUE
    /\ ioHeap = NewHandle([h \in IOHandles |-> Unallocated], 1, "default")
    /\ hist = <<>>
    /\ mIntProperties = EmptyMap
    /\ mFloatProperties = EmptyMap
    /\ mStringProperties = EmptyMap
    /\ other = NoOther
    /\ content = DefaultContent
    /\ memInfo = NoInfo
    /\ \E pAnim \in EvaluatedAnimations : Constructor(pAnim)

NextAnim == \E pTime \in EvaluateTimes, garbage \in KeyGarbage : Evaluate(pTime, garbage)

SpecAnim == InitAnim /\ [][NextAnim]_vars

----------------------------------------------------------------------------
(* Vocabulary of the properties: what the last call was and what it did *)

IsReadFile == last.op = "ReadFile"

Returned == IsReadFile /\ last.pc = "returned"

ReturnedNull == Returned /\ last.ret = NULL

\* the calls of kind op the last ReadFile made
Calls(op) == {i \in DOMAIN last.trace : last.trace[i].op = op}

Called(op) == Calls(op) # {}

\* a plugin call of kind op ended with an exception of one of the kinds
Threw(op, kinds) == \E i \in Calls(op) : last.trace[i].res \in kinds

\* no plugin call of the last ReadFile failed
NoFailure == \A i \in DOMAIN last.trace : last.trace[i].res \in {"ok", "true", "false"}

PluginOps ==
    {"CanRead", "SetupProperties", "InternReadFile", "ProcessScene",
     "StageSetupProperties", "Execute"}

StageOps == {"StageSetupProperties", "Execute"}

\* some importer of the list answers CanRead(pFile, IO, checkSig) with true
SomeAccepts(pFile, checkSig) ==
    \E k \in DOMAIN mImporter : CanRead(mImporter[k], pFile, checkSig)

\* the first importer of the list that answers CanRead(pFile, IO, checkSig) with true
IsFirstAccepting(imp, pFile, checkSig) ==
    \E k \in DOMAIN mImporter :
        /\ mImporter[k] = imp
        /\ CanRead(imp, pFile, checkSig)
        /\ \A j \in 1..(k - 1) : ~CanRead(mImporter[j], pFile, checkSig)

----------------------------------------------------------------------------
(* C1..C10: the contract of ReadFile *)

\* C1: after any ReadFile call returns, GetScene() is non-null if and only
\* if GetErrorString() is empty.  (ReadFile never empties mErrorString, so a
\* success after a failure keeps the old message.)
C1_SceneIffNoError ==
    Returned => ((mScene # NULL) <=> (mErrorString = EmptyString))

\* C2: whatever failure (typed import-error or standard exception) a plugin
\* raises during ReadFile, ReadFile returns normally, with null and with the
\* error string set.  (catch (std::exception&) does not catch
\* ImportErrorException.)
C2_NoFailureEscapes ==
    (IsReadFile /\ \E op \in PluginOps : Threw(op, ExcKinds)) =>
        /\ last.pc = "returned"
        /\ last.ret = NULL
        /\ mErrorString # EmptyString

\* C3: a ReadFile called while a scene is held deletes that scene before it
\* probes the file, and a ReadFile that returns null leaves GetScene() null;
\* the scene held after a ReadFile is never a deleted one nor the one held
\* before.
C3_PreviousSceneFreed ==
    [][ last'.op = "ReadFile" =>
          /\ mScene # NULL =>
                /\ mScene \in freed'
                /\ last'.trace[1].op = "FreeScene"
                /\ \A i \in DOMAIN last'.trace :
                      last'.trace[i].op \in {"Exists", "CanRead"} => i > 1
          /\ (last'.pc = "returned" /\ last'.ret = NULL) => mScene' = NULL
          /\ mScene' # NULL => (mScene' # mScene /\ mScene' \notin freed')
      ]_vars

\* C3 witness: a ReadFile that found a scene held, deleted it and then failed
C3_Witness ==
    /\ ReturnedNull
    /\ Len(last.trace) > 0
    /\ last.trace[1].op = "FreeScene"
    /\ mScene = NULL
    /\ freed # {}

\* the last ReadFile ended in a typed import-error of the decode
DecodeFailed(call) ==
    /\ call.op = "ReadFile"
    /\ \E i \in DOMAIN call.trace :
          call.trace[i].op = "InternReadFile" /\ call.trace[i].res = ImportErrorException

\* a ReadFile of a file that exists and is accepted, in which no plugin failed
Decodable(call) ==
    /\ call.op = "ReadFile"
    /\ Exists(call.pFile)
    /\ SomeAccepts(call.pFile, FALSE) \/ (FindLastDot(call.pFile) # 0 /\ SomeAccepts(call.pFile, TRUE))
    /\ \A i \in DOMAIN call.trace : call.trace[i].res \in {"ok", "true", "false"}

\* C4: when the decode of the selected importer signals a typed import-error,
\* ReadFile returns null, the error string is that importer's message, neither
\* the preprocessor nor a stage has run, and a following ReadFile of a
\* decodable file returns a non-null scene.
C4_DecodeErrorRecoverable ==
    [][ /\ DecodeFailed(last') =>
              /\ last'.pc = "returned" /\ last'.ret = NULL /\ mScene' = NULL
              /\ last'.imp # NoImp
              /\ mErrorString' = ErrorTextOf(last'.imp)
              /\ \A i \in DOMAIN last'.trace :
                    last'.trace[i].op \notin {"ValidateDS", "ProcessScene"} \cup StageOps
        /\ (DecodeFailed(last) /\ Decodable(last')) =>
              /\ last'.pc = "returned"
              /\ last'.ret # NULL
              /\ mScene' = last'.ret
      ]_vars

\* C4 witness: a scene imported while the error string still holds the message
\* an importer gave when its decode failed
C4_Witness ==
    /\ Returned
    /\ mScene # NULL
    /\ \E imp \in Range(mImporter) : mErrorString = ErrorTextOf(imp)

\* the last ReadFile ended in a standard exception of the decode, the
\* preprocessor or a stage
StdExceptionInImport ==
    /\ IsReadFile
    /\ \E op \in {"InternReadFile", "ProcessScene"} \cup StageOps : Threw(op, StdExceptions)

\* the scene the last ReadFile decoded (none when the decode itself threw)
SceneDecoded ==
    IF Threw("InternReadFile", StdExceptions) THEN {} ELSE {nextScene - 1}

\* C5 as stated: the error string is the failure kind followed by the failure
\* text, the scene is freed and ReadFile returns null.
C5_ErrorNamesFailureKind ==
    StdExceptionInImport =>
        /\ ReturnedNull
        /\ mScene = NULL
        /\ SceneDecoded \subseteq freed
        /\ \E k \in StdExceptions : mErrorString = <<k, ": ", What(k)>>

\* C5 amended: the error string is the failure kind when the build has MSVC
\* run-time type information, else the fixed tag std::exception, followed by
\* ": " and the failure text; the scene is freed and ReadFile returns null.
C5_ErrorNamesKindOrTag ==
    StdExceptionInImport =>
        /\ ReturnedNull
        /\ mScene = NULL
        /\ SceneDecoded \subseteq freed
        /\ \E k \in StdExceptions :
              /\ \E op \in PluginOps : Threw(op, {k})
              /\ build.rtti => mErrorString = <<k, ": ", What(k)>>
              /\ ~build.rtti => mErrorString = <<"std::exception", ": ", What(k)>>

\* C5 witness: a stage threw a standard exception after the scene was decoded
C5_Witness ==
    /\ IsReadFile
    /\ Threw("Execute", StdExceptions)
    /\ (nextScene - 1) \in freed
    /\ ~build.rtti

\* C6: when the I/O handle reports that the path does not exist (the empty
\* path included), ReadFile returns null, the error string contains "Unable to
\* open file" and no importer is asked CanRead, SetupProperties or the decode.
C6_MissingFile ==
    (IsReadFile /\ ~Exists(last.pFile)) =>
        /\ ReturnedNull
        /\ mScene = NULL
        /\ Contains(mErrorString, "Unable to open file")
        /\ ~Called("CanRead") /\ ~Called("SetupProperties") /\ ~Called("InternReadFile")

\* C6 witness: ReadFile of the empty path
C6_Witness == Returned /\ last.pFile = PathEmpty /\ Called("Exists")

\* C7: when no importer accepts the file in the extension pass and none in the
\* signature pass, ReadFile returns null, the error string contains "No
\* suitable reader" and neither SetupProperties nor the decode is invoked.
C7_NoSuitableReader ==
    ( /\ IsReadFile
      /\ Exists(last.pFile)
      /\ ~Threw("CanRead", ExcKinds)
      /\ ~SomeAccepts(last.pFile, FALSE)
      /\ ~SomeAccepts(last.pFile, TRUE) ) =>
        /\ ReturnedNull
        /\ mScene = NULL
        /\ Contains(mErrorString, "No suitable reader")
        /\ ~Called("SetupProperties") /\ ~Called("InternReadFile")

\* C7 witness: every importer was asked twice about an existing file and none
\* accepted it
C7_Witness ==
    /\ Returned
    /\ Exists(last.pFile)
    /\ Cardinality(Calls("CanRead")) = 2 * Len(mImporter)
    /\ \A i \in Calls("CanRead") : last.trace[i].res = "false"

\* C8: the importer selected is the first of the list that accepts the file by
\* its extension; only when none does, it is the first of the list that
\* accepts the file by its signature.
C8_FirstInListOrder ==
    IsReadFile =>
        /\ last.imp # NoImp =>
              \/ IsFirstAccepting(last.imp, last.pFile, FALSE)
              \/ /\ ~SomeAccepts(last.pFile, FALSE)
                 /\ IsFirstAccepting(last.imp, last.pFile, TRUE)
        /\ (Exists(last.pFile) /\ SomeAccepts(last.pFile, FALSE) /\ ~Threw("CanRead", ExcKinds))
              => IsFirstAccepting(last.imp, last.pFile, FALSE)

\* C8 witness: a file two importers accept by extension and an earlier one
\* accepts by signature only; the earlier of the two is selected
C8_Witness ==
    /\ Returned
    /\ last.imp = "ObjFileImporter"
    /\ \E k \in DOMAIN mImporter :
          /\ mImporter[k] = "CustomLoader"
          /\ CanRead("CustomLoader", last.pFile, FALSE)
    /\ ~CanRead(mImporter[1], last.pFile, FALSE)
    /\ CanRead(mImporter[1], last.pFile, TRUE)

C10_SignatureFallback ==
    ( /\ IsReadFile
      /\ Exists(last.pFile)
      /\ NoFailure
      /\ ~SomeAccepts(last.pFile, FALSE)
      /\ SomeAccepts(last.pFile, TRUE) ) =>
        /\ \E i \in Calls("CanRead") : last.trace[i].sig
        /\ IsFirstAccepting(last.imp, last.pFile, TRUE)
        /\ Returned /\ last.ret # NULL /\ mScene = last.ret

----------------------------------------------------------------------------
(* C11..C15: the order of the steps after a decode *)

\* the decode of the last ReadFile gave a scene
DecodeSucceeded ==
    IsReadFile /\ \E i \in Calls("InternReadFile") : last.trace[i].res = "ok"

\* the calls of the last ReadFile into pipeline stages
StageCalls == {i \in DOMAIN last.trace : last.trace[i].op \in StageOps}

\* where in the log of the last ReadFile the stage executed, 0 if it did not
ExecIndex(step) ==
    IF \E i \in Calls("Execute") : last.trace[i].who = step
    THEN CHOOSE i \in Calls("Execute") : last.trace[i].who = step
    ELSE 0

Executed(step) == ExecIndex(step) # 0

\* if both stages executed, x did before y
Before(x, y) == (Executed(x) /\ Executed(y)) => ExecIndex(x) < ExecIndex(y)

SpatialSortGroup == {"GenVertexNormalsProcess", "CalcTangentsProcess", "JoinVerticesProcess"}

\* C12: in the stage list the spatial-sort construction stage is immediately
\* before the group {vertex normals, tangents, join-vertices} and the
\* destruction stage immediately after it; in any ReadFile no stage outside the
\* group is called between the execution of the two markers.
C12_SpatialSortWindow ==
    /\ \E a \in DOMAIN PostProcessingSteps :
          /\ a + 4 \in DOMAIN PostProcessingSteps
          /\ StageAt(a) = "ComputeSpatialSortProcess"
          /\ {StageAt(a + 1), StageAt(a + 2), StageAt(a + 3)} = SpatialSortGroup
          /\ StageAt(a + 4) = "DestroySpatialSortProcess"
    /\ IsReadFile =>
          \A k \in StageCalls :
              ( /\ Executed("ComputeSpatialSortProcess")
                /\ ExecIndex("ComputeSpatialSortProcess") < k
                /\ Executed("DestroySpatialSortProcess") =>
                      k < ExecIndex("DestroySpatialSortProcess") )
              => last.trace[k].who \in SpatialSortGroup \cup {"DestroySpatialSortProcess"}

\* C12 witness: both markers and the three stages of the group executed
C12_Witness ==
    /\ Returned
    /\ mScene # NULL
    /\ Executed("ComputeSpatialSortProcess")
    /\ Executed("DestroySpatialSortProcess")
    /\ \A st \in SpatialSortGroup : Executed(st)
    /\ Executed("SplitLargeMeshesProcess_Vertex")

NormalGenerators == {"GenFaceNormalsProcess", "GenVertexNormalsProcess"}

\* C13: whenever the stages named execute in a ReadFile, pre-transform-vertices
\* executes before triangulation, triangulation before sort-by-primitive-type,
\* and find-invalid-data and fix-infacing-normals after sort-by-primitive-type
\* and before both normal generators.
C13_GeometryOrder ==
    IsReadFile =>
        /\ Before("PretransformVertices", "TriangulateProcess")
        /\ Before("TriangulateProcess", "SortByPTypeProcess")
        /\ \A st \in {"FindInvalidDataProcess", "FixInfacingNormalsProcess"} :
              /\ Before("SortByPTypeProcess", st)
              /\ \A g \in NormalGenerators : Before(st, g)

\* C13 witness: every stage C13 names executed in one ReadFile
C13_Witness ==
    /\ Returned
    /\ \A st \in {"PretransformVertices", "TriangulateProcess", "SortByPTypeProcess",
                  "FindInvalidDataProcess", "FixInfacingNormalsProcess"}
                 \cup NormalGenerators : Executed(st)

CleanupStages ==
    {"RemoveVCProcess", "RemoveRedundantMatsProcess", "FindInstancesProcess",
     "FindDegeneratesProcess"}

FinalStages ==
    {"MakeLeftHandedProcess", "FlipUVsProcess", "FlipWindingOrderProcess",
     "LimitBoneWeightsProcess", "ImproveCacheLocalityProcess"}

\* C14: in any ReadFile the four cleanup stages execute before every other
\* stage that executes, and the five final stages (left-handed, flip-UVs,
\* flip-winding, limit-bone-weights, improve-cache-locality) after every other
\* stage that executes.
C14_CleanupFirstTransformsLast ==
    IsReadFile =>
        /\ \A c \in CleanupStages :
              \A st \in Range(PostProcessingSteps) \ CleanupStages : Before(c, st)
        /\ \A f \in FinalStages :
              \A st \in Range(PostProcessingSteps) \ FinalStages : Before(st, f)

\* C14 witness: a cleanup stage, a middle stage and a final stage executed
C14_Witness ==
    /\ Returned
    /\ \A st \in CleanupStages \cup FinalStages : Executed(st)
    /\ Executed("TextureTransformStep")
    /\ ExecIndex("FindDegeneratesProcess") < ExecIndex("TextureTransformStep")
    /\ ExecIndex("TextureTransformStep") < ExecIndex("MakeLeftHandedProcess")

\* C15: for the request triangulate | gen-face-normals | split-large-meshes,
\* triangulation executes before face-normal generation and that before the
\* vertex-axis split; in any ReadFile the triangle-axis split executes before
\* face-normal generation and the vertex-axis split after join-vertices.
C15_SplitOrder ==
    IsReadFile =>
        /\ (last.pFlags = SplitScenarioFlags /\ NoFailure /\ DecodeSucceeded) =>
              /\ Executed("TriangulateProcess")
              /\ ExecIndex("TriangulateProcess") < ExecIndex("GenFaceNormalsProcess")
              /\ ExecIndex("GenFaceNormalsProcess") < ExecIndex("SplitLargeMeshesProcess_Vertex")
        /\ Before("SplitLargeMeshesProcess_Triangle", "GenFaceNormalsProcess")
        /\ Before("JoinVerticesProcess", "SplitLargeMeshesProcess_Vertex")

\* C15 witness: the request of the scenario, all of its stages executed
C15_Witness ==
    /\ Returned
    /\ last.pFlags = SplitScenarioFlags
    /\ Executed("TriangulateProcess")
    /\ Executed("SplitLargeMeshesProcess_Triangle")
    /\ Executed("GenFaceNormalsProcess")
    /\ Executed("SplitLargeMeshesProcess_Vertex")

----------------------------------------------------------------------------
(* C16, C17: extra verbose mode and the shared pass state *)

\* C16: with extra verbose mode on and the validation stage compiled in,
\* ReadFile runs the validation again after every pipeline stage that executed
\* (here in a debug build, the only one that reads the mode).  (The continue of
\* line 1195 is compiled exactly when the validation stage is, so the
\* validation after a stage is never reached.)
C16_VerboseRevalidates ==
    (IsReadFile /\ bExtraVerbose /\ build.debug /\ build.validateds) =>
        \A i \in Calls("Execute") :
            last.trace[i].res = "ok" =>
                /\ i + 1 \in DOMAIN last.trace
                /\ last.trace[i + 1].op = "ValidateDS"

\* C17: whenever ReadFile returns after having run at least one pipeline
\* stage - on success, after a stage nulled the scene or after a stage raised
\* an exception ReadFile caught - the shared pass state holds no data.  (The
\* catch block does not call Clean.)
C17_SharedStateCleared ==
    (Returned /\ Called("Execute")) => mPPShared = {}

----------------------------------------------------------------------------
(* C18, C19: ValidateFlags *)

IsValidateFlags == last.op = "ValidateFlags"

\* the word holds both the generate-normals and the generate-smooth-normals bit
BothNormals(w) ==
    HasBit(w.lo, aiProcess_GenNormals) /\ HasBit(w.lo, aiProcess_GenSmoothNormals)

\* C18: ValidateFlags returns false for every bitset with both the
\* generate-normals and the generate-smooth-normals bit, whatever other bits
\* are set, and changes no member of the dispatcher.
C18_ExclusiveNormalsRejected ==
    [][ (last'.op = "ValidateFlags" /\ BothNormals(UInt(last'.pFlags, last'.hi))) =>
            /\ last'.ret = BoolValue(FALSE)
            /\ UNCHANGED <<mImporter, mScene, mErrorString, mPPShared, bExtraVerbose,
                           build, freed, deletes, orphaned, nextScene>>
      ]_vars

\* C18 witness: a word with both bits, a serviced bit and the highest bit was
\* rejected while a scene was held
C18_Witness ==
    /\ IsValidateFlags
    /\ BothNormals(UInt(last.pFlags, last.hi))
    /\ HasBit(last.pFlags, aiProcess_Triangulate)
    /\ last.hi
    /\ last.ret = BoolValue(FALSE)
    /\ mScene # NULL

\* the positions of the bits set in a word
SetPositions(w) ==
    {q \in 0..(UIntBits - 2) : HasBit(w.lo, 2 ^ q)}
    \cup (IF w.hi THEN {UIntBits - 1} ELSE {})

\* some stage of the pipeline services the bit at the position
Serviced(q) ==
    /\ q < UIntBits - 1
    /\ \E a \in DOMAIN PostProcessingSteps : 2 ^ q \in StageBits[PostProcessingSteps[a]]

IsValidationBit(q) == q < UIntBits - 1 /\ 2 ^ q = aiProcess_ValidateDataStructure

\* C19: for a bitset without the exclusive pair (validation stage compiled
\* in), ValidateFlags is true if and only if every bit set, at any of the 32
\* positions, other than the validation bit, is serviced by a stage.  (The loop
\* of line 1057 ends before the highest bit.)
C19_EveryBitServiced ==
    (IsValidateFlags /\ build.validateds /\ ~BothNormals(UInt(last.pFlags, last.hi))) =>
        (last.ret = BoolValue(TRUE) <=>
            \A q \in SetPositions(UInt(last.pFlags, last.hi)) :
                IsValidationBit(q) \/ Serviced(q))

----------------------------------------------------------------------------
(* C20: ownership of an orphaned scene *)

\* C20: GetOrphanedScene returns the scene held and nulls the stored pointer,
\* and no later ReadFile, FreeScene or destructor deletes an orphaned scene or
\* makes it the dispatcher's scene again.
C20_OrphanedSceneUntouched ==
    [][ /\ last'.op = "GetOrphanedScene" =>
              /\ last'.ret = mScene
              /\ mScene' = NULL
              /\ mScene # NULL => mScene \in orphaned'
        /\ orphaned \subseteq orphaned'
        /\ \A sc \in orphaned' : sc \notin freed' /\ mScene' # sc
      ]_vars

\* C20 witness: a scene was orphaned, a later scene was imported and the
\* dispatcher destroyed
C20_Witness ==
    /\ last.op = "~Importer"
    /\ orphaned # {}
    /\ freed # {}
    /\ mScene # NULL

----------------------------------------------------------------------------
(* C21..C23: the I/O handle *)

\* the handles the dispatcher owns or has owned: the default ones it
\* allocated and the ones a caller passed to it
OwnedHandles == {h \in IOHandles : ioHeap[h].kind # "unallocated"}

Destroyed == last.op = "~Importer"

\* C21: every I/O handle the dispatcher owns is released exactly once, when
\* SetIOHandler replaces it (by null or by a non-null handle) or when the
\* dispatcher is destroyed: none is released twice, a replaced handle has
\* been released, and after the destructor every owned handle has been.
\* (SetIOHandler(NULL) installs a new DefaultIOSystem without deleting the
\* handle held, so that handle is never released.)
C21_HandlesReleasedOnce ==
    \A h \in OwnedHandles :
        /\ ioHeap[h].deleted <= 1
        /\ (h # mIOHandler \/ Destroyed) => ioHeap[h].deleted = 1

\* the call at position i of the log is SetIOHandler with a non-null handle
SetsHandle(i) ==
    i \in DOMAIN hist /\ hist[i].op = "SetIOHandler" /\ hist[i].arg # NULL

\* the call at position i of the log is SetIOHandler(NULL)
SetsNull(i) ==
    i \in DOMAIN hist /\ hist[i].op = "SetIOHandler" /\ hist[i].arg = NULL

Gets(i) == i \in DOMAIN hist /\ hist[i].op = "GetIOHandler"

AsksDefault(i) == i \in DOMAIN hist /\ hist[i].op = "IsDefaultIOHandler"

\* C22: GetIOHandler() right after SetIOHandler(H), H non-null, returns H;
\* after SetIOHandler(H) followed by SetIOHandler(NULL), IsDefaultIOHandler()
\* returns true and GetIOHandler() returns a DefaultIOSystem other than H.
C22_SetThenGet ==
    \A i \in DOMAIN hist :
        /\ (SetsHandle(i) /\ Gets(i + 1)) => hist[i + 1].ret = hist[i].arg
        /\ (SetsHandle(i) /\ SetsNull(i + 1) /\ AsksDefault(i + 2)) =>
               hist[i + 2].ret = BoolValue(TRUE)
        /\ (SetsHandle(i) /\ SetsNull(i + 1) /\ Gets(i + 2)) =>
               /\ hist[i + 2].ret # hist[i].arg
               /\ ioHeap[hist[i + 2].ret].kind = "default"

\* a caller's handle is set and read back, then null is set and the default
\* handle read back
C22_Witness ==
    /\ SetsHandle(1) /\ SetsNull(2) /\ Gets(3)
    /\ ioHeap[hist[1].arg].kind = "custom"
    /\ hist[3].ret = mIOHandler

\* C23: after SetIOHandler(NULL) IsDefaultIOHandler() is true; after
\* SetIOHandler(h) with any non-null h, the handle held at the time of the
\* call included, it is false.  (SetIOHandler(GetIOHandler()) does nothing,
\* so the flag stays true while the default handle is held.)
C23_DefaultFlagFollowsArgument ==
    \A i \in DOMAIN hist :
        /\ (SetsNull(i) /\ AsksDefault(i + 1)) => hist[i + 1].ret = BoolValue(TRUE)
        /\ (SetsHandle(i) /\ AsksDefault(i + 1)) => hist[i + 1].ret = BoolValue(FALSE)

----------------------------------------------------------------------------
(* C24: the property store *)

\* the last call set the property k with the setter op
SetsProperty(op, k) == last'.op = op /\ last'.pFile = <<k>>

\* C24: in each of the three types, a getter of a name never set returns the
\* default the caller passes; SetProperty(k, v) makes the getter of that type
\* return v for k whatever the default; and what a getter returns for a name
\* changes only in a step that sets this name in this type, so the value
\* stays until k is set again and the setters of the other two types do not
\* touch it.
C24_PropertyStore ==
    /\ \A k \in PropertyNames :
           /\ \A d \in IntDefaults : GetPropertyInteger(k, d) = d
           /\ \A d \in FloatDefaults : GetPropertyFloat(k, d) = d
           /\ \A d \in StringDefaults : GetPropertyString(k, d) = d
    /\ [][\A k \in PropertyNames :
            /\ \A v \in IntValues : SetPropertyInteger(k, v) =>
                   \A d \in IntDefaults : GetPropertyInteger(k, d)' = v
            /\ \A v \in FloatValues : SetPropertyFloat(k, v) =>
                   \A d \in FloatDefaults : GetPropertyFloat(k, d)' = v
            /\ \A v \in StringValues : SetPropertyString(k, v) =>
                   \A d \in StringDefaults : GetPropertyString(k, d)' = v
            /\ \A d \in IntDefaults :
                   GetPropertyInteger(k, d)' # GetPropertyInteger(k, d) =>
                       SetsProperty("SetPropertyInteger", k)
            /\ \A d \in FloatDefaults :
                   GetPropertyFloat(k, d)' # GetPropertyFloat(k, d) =>
                       SetsProperty("SetPropertyFloat", k)
            /\ \A d \in StringDefaults :
                   GetPropertyString(k, d)' # GetPropertyString(k, d) =>
                       SetsProperty("SetPropertyString", k)]_vars

\* k1 was set as an integer and as a float, then k2 as an integer: k1 keeps
\* both values and the string getter of k1 still returns the default
C24_Witness ==
    /\ last.op = "SetPropertyInteger" /\ last.pFile = <<"k2">>
    /\ GetPropertyInteger("k1", -1) = 7
    /\ GetPropertyFloat("k1", "10e10") = "2.0f"
    /\ GetPropertyString("k1", <<"none">>) = <<"none">>

----------------------------------------------------------------------------
(* C25: the copy constructor *)

IsCopy == last.op = "Importer(const Importer&)"

OtherOps == {"other.ReadFile", "other.FreeScene", "other.SetPropertyInteger"}

\* what a caller can observe of an Importer o: its members, whether the
\* scene it holds has been deleted and how often its I/O handle has been
ViewOf(o) ==
    <<o, o.mScene \in freed,
      IF o.mIOHandler = NULL THEN 0 ELSE ioHeap[o.mIOHandler].deleted>>

\* C25: the copy of a dispatcher holds no scene, an empty error string, a
\* DefaultIOSystem of its own, the importer list and the shared pass state
\* of a newly constructed dispatcher, and property maps equal to the
\* source's; the two never hold the same scene; and afterwards a property
\* change, an import or a scene release on one object changes nothing a
\* caller can observe of the other.
C25_CopyIsFreshWithProperties ==
    /\ [](IsCopy =>
            /\ other.exists
            /\ other.mScene = NULL
            /\ other.mErrorString = EmptyString
            /\ other.mIOHandler # mIOHandler
            /\ ioHeap[other.mIOHandler] = [kind |-> "default", deleted |-> 0]
            /\ other.mIsDefaultHandler
            /\ other.mImporter = BuiltinImporters
            /\ other.mPPShared = {}
            /\ other.mIntProperties = mIntProperties
            /\ other.mFloatProperties = mFloatProperties
            /\ other.mStringProperties = mStringProperties)
    /\ [](other.exists /\ mScene # NULL => other.mScene # mScene)
    /\ [][/\ last'.op \in OtherOps => ViewOf(ThisObject)' = ViewOf(ThisObject)
          /\ (other.exists /\ last'.op \notin OtherOps) => ViewOf(other)' = ViewOf(other)]_vars

\* a dispatcher with a scene, an error string, a custom loader and
\* properties was copied; then the source changed a property and the copy
\* imported a scene and changed its own value of the property
C25_Witness ==
    /\ last.op = "other.SetPropertyInteger"
    /\ other.mScene # NULL /\ mScene # NULL
    /\ "CustomLoader" \in Range(mImporter)
    /\ "k1" \in DOMAIN mIntProperties /\ "k1" \in DOMAIN other.mIntProperties
    /\ mIntProperties["k1"] # other.mIntProperties["k1"]
    /\ "k1" \in DOMAIN other.mFloatProperties
    /\ mErrorString # EmptyString /\ other.mErrorString = EmptyString

----------------------------------------------------------------------------
(* C26, C27: the importer list *)

\* list without its entry at position i
Without(list, i) == SubSeq(list, 1, i - 1) \o SubSeq(list, i + 1, Len(list))

\* some importer of the list advertises an extension that imp advertises
ExtensionHandled(list, imp) ==
    \E k \in DOMAIN list : ExtensionsOf(list[k]) \cap ExtensionsOf(imp) # {}

\* C26: RegisterLoader puts the importer at the end of the list, leaves the
\* entries before it alone and returns success, also when an importer of the
\* list handles one of its extensions; UnregisterLoader of a handle in the
\* list removes one entry holding it, keeps the others in order and returns
\* success; UnregisterLoader of a handle not in the list returns failure and
\* leaves the list as it is.
C26_RegisterAndUnregister ==
    [][/\ last'.op = "RegisterLoader" =>
              /\ last'.ret = AI_SUCCESS
              /\ Len(mImporter') = Len(mImporter) + 1
              /\ mImporter'[Len(mImporter')] = last'.imp
              /\ SubSeq(mImporter', 1, Len(mImporter)) = mImporter
       /\ (last'.op = "UnregisterLoader" /\ last'.imp \in Range(mImporter)) =>
              /\ last'.ret = AI_SUCCESS
              /\ \E i \in DOMAIN mImporter :
                     mImporter[i] = last'.imp /\ mImporter' = Without(mImporter, i)
       /\ (last'.op = "UnregisterLoader" /\ last'.imp \notin Range(mImporter)) =>
              /\ last'.ret = AI_FAILURE
              /\ mImporter' = mImporter]_vars

\* CustomLoader, which advertises the extension of ObjFileImporter, was
\* registered behind it with success
C26_Witness ==
    /\ last.op = "RegisterLoader" /\ last.imp = "CustomLoader" /\ last.ret = AI_SUCCESS
    /\ mImporter = <<"XFileImporter", "ObjFileImporter", "CustomLoader">>
    /\ ExtensionHandled(BuiltinImporters, "CustomLoader")

IsExtensionQuery == last.op = "IsExtensionSupported"

\* C27: IsExtensionSupported(ext) returns true exactly when some importer of
\* the list answers CanRead(ext, NULL, false) with true; every call it makes
\* is such a CanRead, without an I/O handle and with checkSig false; and it
\* changes no member of the dispatcher.
C27_ExtensionQuery ==
    /\ [](IsExtensionQuery =>
            /\ last.ret = BoolValue(SomeAccepts(last.pFile, FALSE))
            /\ \A i \in DOMAIN last.trace :
                   last.trace[i].op = "CanRead(NULL)" /\ ~last.trace[i].sig)
    /\ [][last'.op = "IsExtensionSupported" =>
              UNCHANGED <<mImporter, mScene, mErrorString, mPPShared, bExtraVerbose,
                          freed, deletes, orphaned, ioVars, propVars, other, memVars, animVars>>]_vars

\* ".ply" is supported by the registered loader alone, found after the two
\* built-in importers said no
C27_Witness ==
    /\ IsExtensionQuery /\ last.pFile = <<".", "ply">> /\ last.ret = BoolValue(TRUE)
    /\ Len(last.trace) = 3 /\ last.imp = "PlyLoader"

----------------------------------------------------------------------------
(* C28, C29: the memory requirements *)

IsMemoryQuery == last.op = "GetMemoryRequirements"

\* meshes + materials + nodes + textures + animations + cameras + lights
CategorySum(info) ==
    info.meshes + info.materials + info.nodes + info.textures + info.animations
    + info.cameras + info.lights

\* C28 as stated: after GetMemoryRequirements, with or without a scene, the
\* total equals the sum of the seven category fields.  (With a scene the
\* total starts from sizeof(aiScene), line 1351.)
C28_TotalIsSumOfCategories ==
    (IsMemoryQuery /\ memInfo.pc = "returned") => memInfo.total = CategorySum(memInfo)

\* C28 amended: after GetMemoryRequirements returns, the total equals the
\* sum of the seven category fields plus the size of the scene structure
\* when the dispatcher holds a scene, and every field is zero when it holds
\* none.
C28_TotalIsSceneStructPlusCategories ==
    (IsMemoryQuery /\ memInfo.pc = "returned") =>
        IF mScene = NULL
        THEN memInfo.total = 0 /\ CategorySum(memInfo) = 0
        ELSE memInfo.total = SizeOf("aiScene") + CategorySum(memInfo)

\* a scene with animations, cameras, lights, textures and a node tree was
\* accounted
C28_Witness ==
    /\ IsMemoryQuery /\ memInfo.pc = "returned" /\ mScene # NULL
    /\ memInfo.animations > 0 /\ memInfo.cameras > 0 /\ memInfo.lights > 0
    /\ memInfo.textures > 0 /\ memInfo.nodes > SizeOf("aiNode")

\* the animations figure when every channel is counted by its own index
OwnChannels(mChannels) ==
    SizeOf("aiAnimation") + SumOver(ChannelWeight, mChannels, Len(mChannels))

OwnIndexAnimations(mAnimations) == SumOver(OwnChannels, mAnimations, Len(mAnimations))

\* C29: GetMemoryRequirements on a scene reads, for each animation, the
\* channels of that animation by their own index: it reads no slot past the
\* end of a channel array, it returns, and the animations figure is the sum
\* over the animations of the sizes and key counts of their own channels.
\* (Line 1412 reads pc->mChannels[i] with the index i of the animation.)
C29_ChannelsByOwnIndex ==
    (IsMemoryQuery /\ mScene # NULL) =>
        /\ ~memInfo.oob
        /\ memInfo.pc = "returned"
        /\ memInfo.animations = OwnIndexAnimations(content.mAnimations)

----------------------------------------------------------------------------
(* C30: the pipeline loop *)

\* the last ReadFile reached the loop over the stages
PipelineRan == IsReadFile /\ \E i \in Calls("ProcessScene") : last.trace[i].res = "ok"

IsStageCall(e) == e.op \in StageOps

\* the calls into stages the last ReadFile made, in their order
StageTrace == SelectSeq(last.trace, IsStageCall)

\* the calls a complete run makes with these flags: for each stage of the
\* list that is active, in list order, SetupProperties and then Execute
RECURSIVE ExpectedCalls(_, _)
ExpectedCalls(a, pFlags) ==
    IF a > Len(PostProcessingSteps) THEN <<>>
    ELSE (IF IsActive(PostProcessingSteps[a], pFlags)
          THEN <<[op |-> "StageSetupProperties", who |-> PostProcessingSteps[a]],
                 [op |-> "Execute", who |-> PostProcessingSteps[a]]>>
          ELSE <<>>)
         \o ExpectedCalls(a + 1, pFlags)

\* the stage at position a of the list executed in the last ReadFile
ExecutedAt(a) == Executed(PostProcessingSteps[a])

\* an earlier stage left the scene null: its Execute ended with the
\* ImportErrorException that ExecuteOnScene turns into a null scene
SceneNullBefore(a) ==
    \E b \in 1..(a - 1) : \E i \in Calls("Execute") :
        /\ last.trace[i].who = PostProcessingSteps[b]
        /\ last.trace[i].res = ImportErrorException

\* C30 as stated, for a ReadFile that returns: in its pipeline run a stage's
\* Execute is invoked if and only if its IsActive(flags) is true and the
\* scene was non-null after the previous stage.  (A stage whose SetupProperties throws is active, has a
\* scene and does not execute; nor do the stages after a stage that threw a
\* standard exception.)
C30_ExecuteIffActiveAndScene ==
    (PipelineRan /\ Returned) =>
        \A a \in DOMAIN PostProcessingSteps :
            ExecutedAt(a) <=>
                (IsActive(PostProcessingSteps[a], last.pFlags) /\ ~SceneNullBefore(a))

\* C30 amended: the calls into stages of one pipeline run are an initial
\* part of SetupProperties, Execute of each active stage in list order, so
\* each stage is visited at most once and in list order, SetupProperties is
\* immediately before the Execute of the same stage and never called for a
\* skipped stage; only the last call made can have failed, and the run stops
\* short only after a failed call: Execute is invoked exactly for the active
\* stages before whose turn the scene is non-null and no call has thrown.
\* With the flags 0 no stage is called.
C30_StageCallsInListOrder ==
    PipelineRan =>
        /\ Len(StageTrace) <= Len(ExpectedCalls(1, last.pFlags))
        /\ \A i \in DOMAIN StageTrace :
               /\ StageTrace[i].op = ExpectedCalls(1, last.pFlags)[i].op
               /\ StageTrace[i].who = ExpectedCalls(1, last.pFlags)[i].who
               /\ i < Len(StageTrace) => StageTrace[i].res = "ok"
        /\ Len(StageTrace) < Len(ExpectedCalls(1, last.pFlags)) =>
               /\ Len(StageTrace) > 0
               /\ StageTrace[Len(StageTrace)].res # "ok"
        /\ last.pFlags = 0 => StageTrace = <<>>

\* TriangulateProcess executed, the stages between it and
\* JoinVerticesProcess were skipped or ran, and the SetupProperties of
\* JoinVerticesProcess threw
C30_Witness ==
    /\ PipelineRan
    /\ Executed("TriangulateProcess")
    /\ ~Executed("SortByPTypeProcess")
    /\ Executed("ComputeSpatialSortProcess")
    /\ ~Executed("JoinVerticesProcess")
    /\ \E i \in Calls("StageSetupProperties") :
           last.trace[i].who = "JoinVerticesProcess" /\ last.trace[i].res = "std::bad_alloc"

----------------------------------------------------------------------------
(* C31: a stage that leaves the scene null *)

\* the calls of Execute in the last ReadFile that ended with the
\* ImportErrorException ExecuteOnScene turns into a null scene
NullingCalls == {i \in Calls("Execute") : last.trace[i].res = ImportErrorException}

\* C31: when the Execute of a stage leaves the scene null, the ReadFile makes
\* no further SetupProperties or Execute call of any stage - the
\* DestroySpatialSortProcess stage included - and returns NULL.
C31_NullSceneHaltsPipeline ==
    IsReadFile =>
        \A i \in NullingCalls :
            /\ \A j \in DOMAIN last.trace : j > i => last.trace[j].op \notin StageOps
            /\ ReturnedNull

\* JoinVerticesProcess failed inside the spatial-sort window: the sort was
\* computed, the active DestroySpatialSortProcess did not run
C31_Witness ==
    /\ IsReadFile
    /\ \E i \in NullingCalls : last.trace[i].who = "JoinVerticesProcess"
    /\ Executed("ComputeSpatialSortProcess")
    /\ IsActive("DestroySpatialSortProcess", last.pFlags)
    /\ ~Executed("DestroySpatialSortProcess")
    /\ ReturnedNull

----------------------------------------------------------------------------
(* C32: ReadFile with a bitset ValidateFlags rejects *)

\* the last call is a ReadFile of the file a.obj, which decodes, no plugin
\* failed in it, and ValidateFlags rejects its flags in this build
ReadWithRejectedFlags ==
    /\ IsReadFile
    /\ last.pFile = PathObj
    /\ NoFailure
    /\ ~ValidateFlagsResult(UInt(last.pFlags, FALSE), build)

\* the import went through as with valid flags: the scene is returned, no
\* error is set and every stage active for the bitset executed
ImportedWithEveryActiveStage ==
    /\ Returned
    /\ last.ret # NULL
    /\ mScene = last.ret
    /\ mErrorString = EmptyString
    /\ \A a \in DOMAIN PostProcessingSteps :
           IsActive(PostProcessingSteps[a], last.pFlags) => ExecutedAt(a)

\* C32 as stated: a ReadFile with a bitset that ValidateFlags rejects does
\* not return null and sets no error for it, and its pipeline executes every
\* stage that is active for the bitset.  (In a debug build the ai_assert of
\* line 1081 stops the call when both normal-generation bits are set.)
C32_RejectedFlagsRunThePipeline ==
    ReadWithRejectedFlags => ImportedWithEveryActiveStage

\* C32 amended: the same, except in a debug build with both
\* normal-generation bits set, where the assertion at the entry of ReadFile
\* fails before any other statement of the call.
C32_RejectedFlagsRunUnlessAsserted ==
    ReadWithRejectedFlags =>
        IF build.debug /\ ~ValidateFlagsBasic(last.pFlags)
        THEN last.pc = "aborted" /\ last.trace = <<>>
        ELSE ImportedWithEveryActiveStage

\* a release build ran both normal-generation stages and a further stage
\* for a bitset that also has an unserviced bit
C32_Witness ==
    /\ ReadWithRejectedFlags
    /\ ~build.debug
    /\ HasBit(last.pFlags, 2 ^ 14)
    /\ Executed("GenFaceNormalsProcess")
    /\ Executed("GenVertexNormalsProcess")
    /\ Executed("TriangulateProcess")
    /\ last.ret # NULL

----------------------------------------------------------------------------
(* C33: every scene is deleted once *)

\* the scenes the imports so far produced
Produced == 1..(nextScene - 1)

\* the dispatcher has been destroyed
Destructed == last.op = "~Importer"

\* the deletes so far: none of an orphaned scene or of the scene GetScene()
\* returns, one of every other scene, the scene held included once the
\* dispatcher is destroyed
ScenesDeletedOnce ==
    /\ \A sc \in Produced :
           /\ sc \in orphaned => deletes[sc] = 0
           /\ (sc \notin orphaned /\ (sc # mScene \/ Destructed)) => deletes[sc] = 1
    /\ (~Destructed /\ mScene # NULL) => (mScene \in Produced /\ deletes[mScene] = 0)

\* C33: over any sequence of ReadFile, FreeScene, GetOrphanedScene and the
\* destructor, every scene an import produced is deleted exactly once by the
\* dispatcher - when it lets go of the scene, at the latest in the
\* destructor - unless it was orphaned, and then never; GetScene() never
\* returns a deleted scene; FreeScene on a dispatcher that holds no scene
\* changes nothing.
C33_ScenesFreedOnce ==
    /\ []ScenesDeletedOnce
    /\ [][ (last'.op = "FreeScene" /\ mScene = NULL) =>
               UNCHANGED <<mImporter, mScene, mErrorString, mPPShared, bExtraVerbose,
                           build, freed, deletes, orphaned, nextScene, ioVars, propVars,
                           other, memVars, animVars>>
         ]_vars

\* the first scene was orphaned, the second deleted by the destructor
C33_Witness ==
    /\ Destructed
    /\ orphaned = {1}
    /\ mScene = 2
    /\ deletes[2] = 1
    /\ deletes[1] = 0

----------------------------------------------------------------------------
(* C34: ReadFile leaves the configuration alone *)

\* the call record of a ReadFile on a dispatcher just constructed with the
\* configuration of this one: no scene, no error, an empty shared state
FreshCallRecord ==
    [CallRecord EXCEPT !.mScene = NULL, !.mErrorString = EmptyString, !.mPPShared = {}]

IsPluginCall(e) == e.op \in PluginOps \cup {"Exists", "ValidateDS"}

\* what a ReadFile did: how it ended, the importer selected, the scene
\* returned, the calls of the probes, the decode and the post-processing in
\* their order, and the error it reports when it returns null
Outcome(d) ==
    [pc |-> d.pc, ret |-> d.ret, imp |-> d.imp, mScene |-> d.mScene,
     calls |-> SelectSeq(d.trace, IsPluginCall),
     error |-> IF d.pc = "returned" /\ d.ret = NULL THEN d.mErrorString ELSE EmptyString]

\* a ReadFile on this dispatcher does what it does on a fresh one
ReadsAsFresh ==
    \A r \in ReuseRequests(mImporter) :
        Outcome(ReadFileBody(CallRecord, mImporter, r.pFile, r.pFlags, r.fault, build))
            = Outcome(ReadFileBody(FreshCallRecord, mImporter, r.pFile, r.pFlags, r.fault,
                                   build))

----------------------------------------------------------------------------
(* C35: two dispatchers share no state *)

\* the allocator the two objects share: which scenes exist and how often
\* each was deleted, with room for the scenes of two more imports
HeapNow ==
    [freed |-> freed, nextScene |-> nextScene,
     deletes |-> [sc \in 1..(MaxScenes + 2) |-> IF sc \in SceneIds THEN deletes[sc] ELSE 0]]

\* an operation of the public surface with its arguments
Op(name, r) == [name |-> name, pFile |-> r.pFile, pFlags |-> r.pFlags, fault |-> r.fault]

TwoOps ==
    {Op("ReadFile", r) : r \in TwoRequests}
    \cup {Op("FreeScene", Request(<<>>, 0, NoFault)),
          Op("SetPropertyInteger", Request(<<"k1">>, 7, NoFault)),
          Op("SetPropertyInteger", Request(<<"k1">>, 0, NoFault))}

\* the operation run on the object o alone, from the members of o and the
\* allocator h only: the object and the allocator afterwards
Run(o, h, op) ==
    CASE op.name = "ReadFile" ->
           LET d == ReadFileBody(
                        [CallRecordOf(o) EXCEPT !.freed = h.freed, !.deletes = h.deletes,
                                                !.nextScene = h.nextScene],
                        o.mImporter, op.pFile, op.pFlags, op.fault, build)
           IN  [o |-> [o EXCEPT !.mScene = d.mScene, !.mErrorString = d.mErrorString,
                                !.mPPShared = d.mPPShared],
                h |-> [freed |-> d.freed, nextScene |-> d.nextScene, deletes |-> d.deletes]]
      [] op.name = "FreeScene" ->
           [o |-> [o EXCEPT !.mScene = NULL],
            h |-> [h EXCEPT !.freed = IF o.mScene = NULL THEN @ ELSE @ \cup {o.mScene},
                            !.deletes = CountDelete(@, o.mScene)]]
      [] OTHER ->
           [o |-> [o EXCEPT !.mIntProperties =
                               SetGenericProperty(@, op.pFile[1], op.pFlags)],
            h |-> h]

\* the state of an object without the addresses of the allocator: its
\* members, whether it holds a scene and how often that scene and its I/O
\* handle were deleted
StateOf(o, h) ==
    [members |-> [o EXCEPT !.mScene = IF @ = NULL THEN 0 ELSE 1],
     sceneDeletes |-> IF o.mScene = NULL THEN 0 ELSE h.deletes[o.mScene],
     handleDeletes |-> ioHeap[o.mIOHandler].deleted]

\* the operations that change the allocator: an import that succeeds, one
\* that allocates a scene and fails, and FreeScene
HeapOps ==
    {op \in TwoOps : op.name = "FreeScene" \/ (op.name = "ReadFile" /\ op.pFile = PathObj)}

\* the operation a on the object o ends in the same state after an
\* operation of the object p as without it, and the operation of p leaves o
\* as it was
Unaffected(o, p) ==
    \A b \in HeapOps : \E P1 \in {Run(p, HeapNow, b)} :
        /\ StateOf(o, P1.h) = StateOf(o, HeapNow)
        /\ \A a \in TwoOps :
               \E alone \in {Run(o, HeapNow, a)}, after \in {Run(o, P1.h, a)} :
                   StateOf(after.o, after.h) = StateOf(alone.o, alone.h)

Independent == other.exists => (Unaffected(ThisObject, other) /\ Unaffected(other, ThisObject))

\* the step is the operation run on one object alone: the other object and
\* everything it owns are as before
StepOf(o, o2, unchanged, h2) ==
    /\ unchanged
    /\ \E op \in TwoOps : \E R \in {Run(o, HeapNow, op)} :
           /\ R.o = o2
           /\ R.h.freed = h2.freed
           /\ R.h.nextScene = h2.nextScene

ThisOps == {"ReadFile", "FreeScene", "SetPropertyInteger"}

\* C35: the dispatcher and a second instance share no mutable state.  Every
\* operation on one of them is the operation run on that object alone - it
\* reads and writes the importer list, shared pass state, I/O handle,
\* property maps, scene and error string of that object only - and it ends
\* in the same state whatever the other object did before, so each object
\* is, after any interleaving, in the state its own operations give.
C35_InstancesIndependent ==
    /\ []Independent
    /\ [](other.exists =>
            /\ other.mIOHandler # mIOHandler
            /\ (mScene # NULL => other.mScene # mScene))
    /\ [][ other.exists =>
             /\ last'.op \in ThisOps =>
                    StepOf(ThisObject, ThisObject', other' = other, HeapNow')
             /\ last'.op \in OtherOps =>
                    StepOf(other, other', ThisObject' = ThisObject, HeapNow')
         ]_vars

\* both hold a scene; the second instance has just failed in the
\* spatial-sort window, which left its shared pass state and error string
\* behind, while the first holds neither
C35_Witness ==
    /\ other.exists
    /\ last.op = "other.ReadFile"
    /\ Threw("Execute", StdExceptions)
    /\ other.mPPShared # {} /\ mPPShared = {}
    /\ other.mErrorString # EmptyString /\ mErrorString = EmptyString
    /\ mScene # NULL
    /\ other.mIntProperties # mIntProperties

----------------------------------------------------------------------------
(* C36: the cached frame never changes the key chosen *)

\* the key a scan from index 0 chooses: the first index f with time < time
\* of key f+1, or the last key
ScanFromZero(keys, time) ==
    LET passed == {f \in 0..(Len(keys) - 2) : time < keys[f + 2]}
    IN  IF passed = {} THEN Len(keys) - 1
        ELSE CHOOSE f \in passed : \A g \in passed : f <= g

\* the key arrays with keys, as pairs of channel and array
KeyedTracks ==
    {t \in (DOMAIN mAnim.mChannels) \X (1..3) : Len(Tracks(mAnim.mChannels[t[1]])[t[2]]) > 0}

EmptyTracks == ((DOMAIN mAnim.mChannels) \X (1..3)) \ KeyedTracks

\* C36: after every Evaluate, whatever times the earlier calls had, the key
\* chosen for each channel and each of its key arrays with keys is the key a
\* scan from index 0 chooses for the time of the call
C36_ChosenKeyIsScanFromZero ==
    evaluated.done =>
        \A t \in KeyedTracks :
            /\ evaluated.tracks[t[1]][t[2]].frame
                   = ScanFromZero(Tracks(mAnim.mChannels[t[1]])[t[2]], evaluated.time)
            /\ mTransforms[t[1]][t[2]].key = evaluated.tracks[t[1]][t[2]].frame

\* a call for an earlier time than the call before it, with a cached frame
\* past the key it chooses
C36_Witness ==
    /\ evaluated.done
    /\ \E t \in KeyedTracks :
           /\ evaluated.tracks[t[1]][t[2]].cached > evaluated.tracks[t[1]][t[2]].frame
           /\ evaluated.tracks[t[1]][t[2]].start = 0
           /\ evaluated.tracks[t[1]][t[2]].frame > 0

----------------------------------------------------------------------------
(* C37: every key index read is within its array *)

\* C37: after every Evaluate, each key array with n > 0 keys was read only at
\* indices within 0..n-1, the frame chosen and the frame cached among them,
\* and a key array without keys was not indexed: its default value is used
C37_KeyIndicesInBounds ==
    evaluated.done =>
        /\ DOMAIN mLastPositions = DOMAIN mAnim.mChannels
        /\ DOMAIN mTransforms = DOMAIN mAnim.mChannels
        /\ \A t \in KeyedTracks :
               LET n == Len(Tracks(mAnim.mChannels[t[1]])[t[2]])
                   track == evaluated.tracks[t[1]][t[2]]
               IN  /\ track.indexed
                   /\ track.reads \subseteq 0..(n - 1)
                   /\ track.start \in 0..(n - 1)
                   /\ track.frame \in track.reads
                   /\ mLastPositions[t[1]][t[2]] \in 0..(n - 1)
        /\ \A t \in EmptyTracks :
               /\ ~evaluated.tracks[t[1]][t[2]].indexed
               /\ evaluated.tracks[t[1]][t[2]].reads = {}
               /\ mTransforms[t[1]][t[2]] = [key |-> NoKey, value |-> DefaultValues[t[2]]]

\* a channel with an array without keys, and an array of the most keys whose
\* last key was chosen after a search from a cached frame
C37_Witness ==
    /\ evaluated.done
    /\ EmptyTracks # {}
    /\ \E t \in KeyedTracks :
           /\ Len(Tracks(mAnim.mChannels[t[1]])[t[2]]) = MaxKeys
           /\ evaluated.tracks[t[1]][t[2]].start > 0
           /\ evaluated.tracks[t[1]][t[2]].frame = MaxKeys - 1
           /\ MaxKeys - 1 \in evaluated.tracks[t[1]][t[2]].reads

====
